---------------------------- MODULE Spec2Model ----------------------------
(***************************************************************************)
(* Traycer Mock: the planning workflow of the VS Code extension.           *)
(*                                                                         *)
(*   GeminiService   (src/src/geminiService.ts 9-368)   generation adapter *)
(*   PlannerProvider (src/src/geminiService.ts 375-790) workflow engine    *)
(*                                                                         *)
(* A JavaScript string is a sequence of one-character strings, so that     *)
(* trim, toLowerCase, includes and split are computed on the characters.   *)
(* A backend response for the plan is a sequence of lexemes (brackets,     *)
(* commas, code fences, line breaks, JSON values), so that the fence       *)
(* stripping, the greedy bracket match and JSON.parse are computed on it.  *)
(***************************************************************************)
EXTENDS Integers, Sequences, FiniteSets, Bags, TLC

(***************************************************************************)
(* Bounds of the model                                                     *)
(***************************************************************************)
\* most lines of a backend response to the clarification prompt
MaxLines == 4
\* longest backend response to the plan prompt, in lexemes
MaxRespLen == 4
\* most elements of a well-formed array in a plan response
MaxItems == 2
\* most operations of the PlannerProvider in flight at once
MaxPending == 2

(***************************************************************************)
(* String primitives of the JavaScript runtime                             *)
(***************************************************************************)
\* white space as String.prototype.trim sees it (the characters the model uses)
IsWhiteSpace(c) == c \in {" ", "\n", "\t"}

RECURSIVE trimStart(_)
trimStart(s) ==
  IF s # <<>> /\ IsWhiteSpace(Head(s)) THEN trimStart(Tail(s)) ELSE s

RECURSIVE trimEnd(_)
trimEnd(s) ==
  IF s # <<>> /\ IsWhiteSpace(s[Len(s)]) THEN trimEnd(SubSeq(s, 1, Len(s) - 1)) ELSE s

\* String.prototype.trim
trim(s) == trimEnd(trimStart(s))

lowerChar(c) ==
  CASE c = "A" -> "a" [] c = "B" -> "b" [] c = "C" -> "c" [] c = "D" -> "d"
    [] c = "E" -> "e" [] c = "F" -> "f" [] c = "G" -> "g" [] c = "H" -> "h"
    [] c = "I" -> "i" [] c = "J" -> "j" [] c = "K" -> "k" [] c = "L" -> "l"
    [] c = "M" -> "m" [] c = "N" -> "n" [] c = "O" -> "o" [] c = "P" -> "p"
    [] c = "Q" -> "q" [] c = "R" -> "r" [] c = "S" -> "s" [] c = "T" -> "t"
    [] c = "U" -> "u" [] c = "V" -> "v" [] c = "W" -> "w" [] c = "X" -> "x"
    [] c = "Y" -> "y" [] c = "Z" -> "z" [] OTHER -> c

\* String.prototype.toLowerCase
toLowerCase(s) == [i \in 1..Len(s) |-> lowerChar(s[i])]

\* String.prototype.includes
includes(s, sub) ==
  \E i \in 0..(Len(s) - Len(sub)) : SubSeq(s, i + 1, i + Len(sub)) = sub

\* String.prototype.split("\n")
RECURSIVE splitLines(_)
splitLines(text) ==
  IF \A i \in 1..Len(text) : text[i] # "\n"
  THEN <<text>>
  ELSE LET k == CHOOSE i \in 1..Len(text) :
                   text[i] = "\n" /\ \A j \in 1..(i - 1) : text[j] # "\n"
       IN  <<SubSeq(text, 1, k - 1)>> \o splitLines(SubSeq(text, k + 1, Len(text)))

\* Array.prototype.slice(0, n)
slice0(seq, n) == SubSeq(seq, 1, IF Len(seq) < n THEN Len(seq) ELSE n)

(***************************************************************************)
(* String literals of the source and of the scenarios                      *)
(***************************************************************************)
\* "Which authentication service would you like to use (Auth0, Firebase, or build custom)?"
AuthQ1 ==
  <<"W","h","i","c","h"," ","a","u","t","h","e","n","t","i","c","a","t","i","o","n"," ","s","e","r","v","i","c","e"," ","w","o","u","l","d"," ","y","o","u"," ","l","i","k","e"," ","t","o"," ","u","s","e"," ","(","A","u","t","h","0",","," ","F","i","r","e","b","a","s","e",","," ","o","r"," ","b","u","i","l","d"," ","c","u","s","t","o","m",")","?">>

\* "Do you need social login options like Google or GitHub?"
AuthQ2 ==
  <<"D","o"," ","y","o","u"," ","n","e","e","d"," ","s","o","c","i","a","l"," ","l","o","g","i","n"," ","o","p","t","i","o","n","s"," ","l","i","k","e"," ","G","o","o","g","l","e"," ","o","r"," ","G","i","t","H","u","b","?">>

\* "Should this work with your existing user database?"
AuthQ3 ==
  <<"S","h","o","u","l","d"," ","t","h","i","s"," ","w","o","r","k"," ","w","i","t","h"," ","y","o","u","r"," ","e","x","i","s","t","i","n","g"," ","u","s","e","r"," ","d","a","t","a","b","a","s","e","?">>

\* "Do you prefer a REST API or GraphQL for this feature?"
ApiQ1 ==
  <<"D","o"," ","y","o","u"," ","p","r","e","f","e","r"," ","a"," ","R","E","S","T"," ","A","P","I"," ","o","r"," ","G","r","a","p","h","Q","L"," ","f","o","r"," ","t","h","i","s"," ","f","e","a","t","u","r","e","?">>

\* "What database should this connect to?"
ApiQ2 ==
  <<"W","h","a","t"," ","d","a","t","a","b","a","s","e"," ","s","h","o","u","l","d"," ","t","h","i","s"," ","c","o","n","n","e","c","t"," ","t","o","?">>

\* "Do you need authentication/authorization on these endpoints?"
ApiQ3 ==
  <<"D","o"," ","y","o","u"," ","n","e","e","d"," ","a","u","t","h","e","n","t","i","c","a","t","i","o","n","/","a","u","t","h","o","r","i","z","a","t","i","o","n"," ","o","n"," ","t","h","e","s","e"," ","e","n","d","p","o","i","n","t","s","?">>

\* "Which database system are you using (PostgreSQL, MongoDB, MySQL)?"
DbQ1 ==
  <<"W","h","i","c","h"," ","d","a","t","a","b","a","s","e"," ","s","y","s","t","e","m"," ","a","r","e"," ","y","o","u"," ","u","s","i","n","g"," ","(","P","o","s","t","g","r","e","S","Q","L",","," ","M","o","n","g","o","D","B",","," ","M","y","S","Q","L",")","?">>

\* "Do you need migration scripts for existing data?"
DbQ2 ==
  <<"D","o"," ","y","o","u"," ","n","e","e","d"," ","m","i","g","r","a","t","i","o","n"," ","s","c","r","i","p","t","s"," ","f","o","r"," ","e","x","i","s","t","i","n","g"," ","d","a","t","a","?">>

\* "What ORM or database client do you prefer (Prisma, TypeORM, etc.)?"
DbQ3 ==
  <<"W","h","a","t"," ","O","R","M"," ","o","r"," ","d","a","t","a","b","a","s","e"," ","c","l","i","e","n","t"," ","d","o"," ","y","o","u"," ","p","r","e","f","e","r"," ","(","P","r","i","s","m","a",","," ","T","y","p","e","O","R","M",","," ","e","t","c",".",")","?">>

\* "What technology stack should this use?"
GenericQ1 ==
  <<"W","h","a","t"," ","t","e","c","h","n","o","l","o","g","y"," ","s","t","a","c","k"," ","s","h","o","u","l","d"," ","t","h","i","s"," ","u","s","e","?">>

\* "Do you need this to work with existing code or systems?"
GenericQ2 ==
  <<"D","o"," ","y","o","u"," ","n","e","e","d"," ","t","h","i","s"," ","t","o"," ","w","o","r","k"," ","w","i","t","h"," ","e","x","i","s","t","i","n","g"," ","c","o","d","e"," ","o","r"," ","s","y","s","t","e","m","s","?">>

\* "Are there any specific requirements or constraints?"
GenericQ3 ==
  <<"A","r","e"," ","t","h","e","r","e"," ","a","n","y"," ","s","p","e","c","i","f","i","c"," ","r","e","q","u","i","r","e","m","e","n","t","s"," ","o","r"," ","c","o","n","s","t","r","a","i","n","t","s","?">>

AuthFallbackPlan ==
  <<[file |-> <<"s","r","c","/","t","y","p","e","s","/","a","u","t","h",".","t","s">>,
      action |-> "new",
      description |-> <<"D","e","f","i","n","e"," ","a","u","t","h","e","n","t","i","c","a","t","i","o","n"," ","t","y","p","e","s"," ","a","n","d"," ","u","s","e","r"," ","i","n","t","e","r","f","a","c","e","s">>],
    [file |-> <<"s","r","c","/","l","i","b","/","a","u","t","h",".","t","s">>,
      action |-> "new",
      description |-> <<"C","r","e","a","t","e"," ","A","u","t","h","0"," ","i","n","t","e","g","r","a","t","i","o","n"," ","s","e","r","v","i","c","e"," ","w","i","t","h"," ","l","o","g","i","n","/","l","o","g","o","u","t"," ","m","e","t","h","o","d","s">>],
    [file |-> <<"s","r","c","/","c","o","m","p","o","n","e","n","t","s","/","L","o","g","i","n","F","o","r","m",".","t","s","x">>,
      action |-> "new",
      description |-> <<"C","r","e","a","t","e"," ","l","o","g","i","n"," ","f","o","r","m"," ","c","o","m","p","o","n","e","n","t"," ","w","i","t","h"," ","A","u","t","h","0"," ","i","n","t","e","g","r","a","t","i","o","n">>],
    [file |-> <<"s","r","c","/","c","o","m","p","o","n","e","n","t","s","/","P","r","o","t","e","c","t","e","d","R","o","u","t","e",".","t","s","x">>,
      action |-> "new",
      description |-> <<"C","r","e","a","t","e"," ","r","o","u","t","e"," ","p","r","o","t","e","c","t","i","o","n"," ","c","o","m","p","o","n","e","n","t"," ","f","o","r"," ","a","u","t","h","e","n","t","i","c","a","t","e","d"," ","p","a","g","e","s">>],
    [file |-> <<"s","r","c","/","A","p","p",".","t","s","x">>,
      action |-> "modify",
      description |-> <<"A","d","d"," ","A","u","t","h","0"," ","p","r","o","v","i","d","e","r"," ","a","n","d"," ","p","r","o","t","e","c","t","e","d"," ","r","o","u","t","i","n","g"," ","c","o","n","f","i","g","u","r","a","t","i","o","n">>],
    [file |-> <<"s","r","c","/","u","t","i","l","s","/","l","o","c","a","l","A","u","t","h",".","t","s">>,
      action |-> "remove",
      description |-> <<"R","e","m","o","v","e"," ","o","l","d"," ","l","o","c","a","l"," ","a","u","t","h","e","n","t","i","c","a","t","i","o","n"," ","u","t","i","l","i","t","i","e","s">>]>>

GenericFallbackPlan ==
  <<[file |-> <<"s","r","c","/","c","o","m","p","o","n","e","n","t","s","/","N","e","w","F","e","a","t","u","r","e",".","t","s","x">>,
      action |-> "new",
      description |-> <<"C","r","e","a","t","e"," ","m","a","i","n"," ","c","o","m","p","o","n","e","n","t"," ","f","o","r"," ","t","h","e"," ","r","e","q","u","e","s","t","e","d"," ","f","e","a","t","u","r","e">>],
    [file |-> <<"s","r","c","/","t","y","p","e","s","/","f","e","a","t","u","r","e",".","t","s">>,
      action |-> "new",
      description |-> <<"D","e","f","i","n","e"," ","T","y","p","e","S","c","r","i","p","t"," ","t","y","p","e","s"," ","f","o","r"," ","t","h","e"," ","n","e","w"," ","f","e","a","t","u","r","e">>],
    [file |-> <<"s","r","c","/","A","p","p",".","t","s","x">>,
      action |-> "modify",
      description |-> <<"I","n","t","e","g","r","a","t","e"," ","n","e","w"," ","f","e","a","t","u","r","e"," ","i","n","t","o"," ","m","a","i","n"," ","a","p","p","l","i","c","a","t","i","o","n">>]>>

\* "auth"
KwAuth ==
  <<"a","u","t","h">>

\* "api"
KwApi ==
  <<"a","p","i">>

\* "endpoint"
KwEndpoint ==
  <<"e","n","d","p","o","i","n","t">>

\* "database"
KwDatabase ==
  <<"d","a","t","a","b","a","s","e">>

\* "db"
KwDb ==
  <<"d","b">>

\* "Add user authentication with Auth0"
ReqAuth0 ==
  <<"A","d","d"," ","u","s","e","r"," ","a","u","t","h","e","n","t","i","c","a","t","i","o","n"," ","w","i","t","h"," ","A","u","t","h","0">>

\* "Build a REST API endpoint"
ReqApi ==
  <<"B","u","i","l","d"," ","a"," ","R","E","S","T"," ","A","P","I"," ","e","n","d","p","o","i","n","t">>

\* "Migrate the database schema"
ReqDatabase ==
  <<"M","i","g","r","a","t","e"," ","t","h","e"," ","d","a","t","a","b","a","s","e"," ","s","c","h","e","m","a">>

\* "Add a dashboard page"
ReqGeneric ==
  <<"A","d","d"," ","a"," ","d","a","s","h","b","o","a","r","d"," ","p","a","g","e">>

\* "  AUTHORIZE the api  "
ReqUpper ==
  <<" "," ","A","U","T","H","O","R","I","Z","E"," ","t","h","e"," ","a","p","i"," "," ">>

\* "Add auth to the api"
ReqAuthApi ==
  <<"A","d","d"," ","a","u","t","h"," ","t","o"," ","t","h","e"," ","a","p","i">>

\* "auth"
ReqShort ==
  <<"a","u","t","h">>

\* "   add api   "
ReqPadded ==
  <<" "," "," ","a","d","d"," ","a","p","i"," "," "," ">>

\* "          "
ReqBlank ==
  <<" "," "," "," "," "," "," "," "," "," ">>

\* ""
ReqEmpty ==
  <<>>

\* "ok"
AnsOk ==
  <<"o","k">>

\* " Auth0 "
AnsPadded ==
  <<" ","A","u","t","h","0"," ">>

\* " y "
AnsShort ==
  <<" ","y"," ">>

\* ""
AnsEmpty ==
  <<>>

(***************************************************************************)
(* JSON values and the lexemes of a plan response                          *)
(***************************************************************************)
\* one property of a parsed JSON object as the validation reads it: its
\* typeof and, for a string, its characters (action: the string itself)
StringField(s) == [ty |-> "string", s |-> s]
NumberField == [ty |-> "number", s |-> <<>>]
Undefined == [ty |-> "undefined", s |-> <<>>]
\* the action property: only compared with the three action strings
ActionField(a) == [ty |-> "string", s |-> a]
NumberAction == [ty |-> "number", s |-> ""]
NoAction == [ty |-> "undefined", s |-> ""]

ObjectValue(file, action, description) ==
  [t |-> "object", file |-> file, action |-> action, description |-> description]
NullValue == [t |-> "null", file |-> Undefined, action |-> NoAction, description |-> Undefined]
NumberValue == [t |-> "number", file |-> Undefined, action |-> NoAction, description |-> Undefined]
ArrayValue == [t |-> "array", file |-> Undefined, action |-> NoAction, description |-> Undefined]

LBracket == [k |-> "[", v |-> NullValue]
RBracket == [k |-> "]", v |-> NullValue]
Comma == [k |-> ",", v |-> NullValue]
\* the lexeme ```json
FenceJson == [k |-> "fenceJson", v |-> NullValue]
\* the lexeme ```
Fence == [k |-> "fence", v |-> NullValue]
NewLine == [k |-> "\n", v |-> NullValue]
\* any run of characters that is neither JSON nor a fence
Prose == [k |-> "prose", v |-> NullValue]
\* the text of one JSON scalar or object
Literal(v) == [k |-> "literal", v |-> v]

(***************************************************************************)
(* GeminiService                                                           *)
(***************************************************************************)
\* the api/endpoint keywords tested before the auth keyword
getFallbackClarificationQuestionsApiFirst(userRequest) ==
  LET request == toLowerCase(userRequest)
  IN  IF includes(request, KwApi) \/ includes(request, KwEndpoint)
      THEN <<ApiQ1, ApiQ2, ApiQ3>>
      ELSE IF includes(request, KwAuth) THEN <<AuthQ1, AuthQ2, AuthQ3>>
      ELSE IF includes(request, KwDatabase) \/ includes(request, KwDb)
           THEN <<DbQ1, DbQ2, DbQ3>>
      ELSE <<GenericQ1, GenericQ2, GenericQ3>>

getFallbackClarificationQuestions(userRequest) ==
  LET request == toLowerCase(userRequest)
  IN  IF includes(request, KwAuth) THEN <<AuthQ1, AuthQ2, AuthQ3>>
      ELSE IF includes(request, KwApi) \/ includes(request, KwEndpoint)
           THEN <<ApiQ1, ApiQ2, ApiQ3>>
      ELSE IF includes(request, KwDatabase) \/ includes(request, KwDb)
           THEN <<DbQ1, DbQ2, DbQ3>>
      ELSE <<GenericQ1, GenericQ2, GenericQ3>>

\* the auth branch left out
getFallbackPlanGenericOnly(userRequest) == GenericFallbackPlan

getFallbackPlan(userRequest) ==
  LET request == toLowerCase(userRequest)
  IN  IF includes(request, KwAuth) THEN AuthFallbackPlan ELSE GenericFallbackPlan

\* what an async method hands its caller: a value, or a rejection
Returned(value) == [threw |-> FALSE, value |-> value]
Rejected == [threw |-> TRUE, value |-> <<>>]

\* a backend's answer to one generateContent call
BackendThrows == [throws |-> TRUE, text |-> <<>>]
BackendText(text) == [throws |-> FALSE, text |-> text]

\* the .slice(0, 3) left out
extractQuestionsUncapped(text) ==
  LET lines == splitLines(text)
      trimmed == [i \in 1..Len(lines) |-> trim(lines[i])]
      isQuestion(q) == Len(q) > 0 /\ includes(q, <<"?">>)
  IN  SelectSeq(trimmed, isQuestion)

\* the .map(line => line.trim()) left out
extractQuestionsUntrimmed(text) ==
  LET lines == splitLines(text)
      isQuestion(q) == Len(trim(q)) > 0 /\ includes(q, <<"?">>)
  IN  slice0(SelectSeq(lines, isQuestion), 3)

\* lines 143-147: the non-empty trimmed lines holding a "?", three at most
extractQuestions(text) ==
  LET lines == splitLines(text)
      trimmed == [i \in 1..Len(lines) |-> trim(lines[i])]
      isQuestion(q) == Len(q) > 0 /\ includes(q, <<"?">>)
  IN  slice0(SelectSeq(trimmed, isQuestion), 3)

generateClarificationQuestions(userRequest, initialized, backend) ==
  IF ~initialized THEN Returned(getFallbackClarificationQuestions(userRequest))
  ELSE IF backend.throws
       THEN Returned(getFallbackClarificationQuestions(userRequest))
  ELSE LET questions == extractQuestions(backend.text)
       IN  IF Len(questions) > 0 THEN Returned(questions)
           ELSE Returned(getFallbackClarificationQuestions(userRequest))

\* text.replace(/<fence>\n?/g, ""): drop each fence lexeme and a line break after it
RECURSIVE replaceFence(_, _)
replaceFence(text, fence) ==
  IF text = <<>> THEN <<>>
  ELSE IF Head(text) = fence
       THEN IF Len(text) > 1 /\ text[2] = NewLine
            THEN replaceFence(SubSeq(text, 3, Len(text)), fence)
            ELSE replaceFence(Tail(text), fence)
  ELSE <<Head(text)>> \o replaceFence(Tail(text), fence)

RECURSIVE trimLexemes(_)
trimLexemes(text) ==
  IF text # <<>> /\ Head(text) = NewLine THEN trimLexemes(Tail(text))
  ELSE IF text # <<>> /\ text[Len(text)] = NewLine
       THEN trimLexemes(SubSeq(text, 1, Len(text) - 1))
  ELSE text

\* lines 202-208
stripCodeFences(text) ==
  trimLexemes(replaceFence(replaceFence(trimLexemes(text), FenceJson), Fence))

\* text.match(/\[[\s\S]*\]/): from the first "[" to the last "]" after it
NoMatch == <<>>
jsonMatch(text) ==
  LET opens == {i \in 1..Len(text) : text[i] = LBracket}
  IN  IF opens = {} THEN NoMatch
      ELSE LET first == CHOOSE i \in opens : \A j \in opens : i <= j
               closes == {i \in (first + 1)..Len(text) : text[i] = RBracket}
           IN  IF closes = {} THEN NoMatch
               ELSE LET last == CHOOSE i \in closes : \A j \in closes : j <= i
                    IN  SubSeq(text, first, last)

\* JSON.parse on lexemes: white space is skipped, arrays nest, anything
\* else than a literal, a bracket or a comma is a SyntaxError
RECURSIVE skipWs(_, _)
skipWs(toks, i) ==
  IF i <= Len(toks) /\ toks[i] = NewLine THEN skipWs(toks, i + 1) ELSE i

ParseError == [ok |-> FALSE, next |-> 0, val |-> NullValue, elems |-> <<>>]
Parsed(next, val, elems) == [ok |-> TRUE, next |-> next, val |-> val, elems |-> elems]

RECURSIVE parseValue(_, _)
RECURSIVE parseArrayTail(_, _, _)
parseValue(toks, at) ==
  LET i == skipWs(toks, at)
  IN  IF i > Len(toks) THEN ParseError
      ELSE IF toks[i].k = "literal" THEN Parsed(i + 1, toks[i].v, <<>>)
      ELSE IF toks[i] = LBracket
           THEN LET j == skipWs(toks, i + 1)
                IN  IF j <= Len(toks) /\ toks[j] = RBracket
                    THEN Parsed(j + 1, ArrayValue, <<>>)
                    ELSE LET first == parseValue(toks, j)
                         IN  IF first.ok
                             THEN parseArrayTail(toks, first.next, <<first.val>>)
                             ELSE ParseError
      ELSE ParseError

parseArrayTail(toks, at, acc) ==
  LET i == skipWs(toks, at)
  IN  IF i > Len(toks) THEN ParseError
      ELSE IF toks[i] = RBracket THEN Parsed(i + 1, ArrayValue, acc)
      ELSE IF toks[i] = Comma
           THEN LET v == parseValue(toks, i + 1)
                IN  IF v.ok THEN parseArrayTail(toks, v.next, Append(acc, v.val))
                    ELSE ParseError
      ELSE ParseError

JSONparse(toks) ==
  LET r == parseValue(toks, 1)
  IN  IF r.ok /\ skipWs(toks, r.next) > Len(toks) THEN r ELSE ParseError

ActionTypes == {"new", "modify", "remove"}

\* lines 223-228: the filter of the parsed elements
isPlanItem(item) ==
  /\ item.t # "null"
  /\ item.file.ty = "string"
  /\ item.action.ty = "string"
  /\ item.description.ty = "string"
  /\ item.action.s \in ActionTypes

\* lines 230-234
toPlanItem(item) ==
  [file |-> trim(item.file.s), action |-> item.action.s,
   description |-> trim(item.description.s)]

\* lines 221-234
validatePlan(planData) ==
  LET kept == SelectSeq(planData, isPlanItem)
  IN  [i \in 1..Len(kept) |-> toPlanItem(kept[i])]

\* no try/catch around the backend call and the parsing, and no test of
\* the validated plan's length
Gemini_generatePlanUnguarded(userRequest, clarificationAnswers, initialized, backend) ==
  IF ~initialized THEN Returned(getFallbackPlan(userRequest))
  ELSE IF backend.throws THEN Rejected
  ELSE LET match == jsonMatch(stripCodeFences(backend.text))
       IN  IF match = NoMatch THEN Rejected
           ELSE LET planData == JSONparse(match)
                IN  IF ~planData.ok THEN Rejected
                    ELSE Returned(validatePlan(planData.elems))

\* a fallback that reads the answers too
Gemini_generatePlanByAnswers(userRequest, clarificationAnswers, initialized, backend) ==
  LET RECURSIVE join(_)
      join(answers) == IF answers = <<>> THEN <<>> ELSE Head(answers) \o join(Tail(answers))
      fallback == getFallbackPlan(userRequest \o join(clarificationAnswers))
  IN  IF ~initialized THEN Returned(fallback)
      ELSE IF backend.throws THEN Returned(fallback)
      ELSE LET match == jsonMatch(stripCodeFences(backend.text))
           IN  IF match = NoMatch THEN Returned(fallback)
               ELSE LET planData == JSONparse(match)
                    IN  IF ~planData.ok THEN Returned(fallback)
                        ELSE LET validatedPlan == validatePlan(planData.elems)
                             IN  IF Len(validatedPlan) = 0
                                 THEN Returned(fallback)
                                 ELSE Returned(validatedPlan)

\* lines 161-246
Gemini_generatePlan(userRequest, clarificationAnswers, initialized, backend) ==
  IF ~initialized THEN Returned(getFallbackPlan(userRequest))
  ELSE IF backend.throws THEN Returned(getFallbackPlan(userRequest))
  ELSE LET match == jsonMatch(stripCodeFences(backend.text))
       IN  IF match = NoMatch THEN Returned(getFallbackPlan(userRequest))
           ELSE LET planData == JSONparse(match)
                IN  IF ~planData.ok THEN Returned(getFallbackPlan(userRequest))
                    ELSE LET validatedPlan == validatePlan(planData.elems)
                         IN  IF Len(validatedPlan) = 0
                             THEN Returned(getFallbackPlan(userRequest))
                             ELSE Returned(validatedPlan)

(***************************************************************************)
(* State                                                                   *)
(***************************************************************************)
VARIABLES
  workflowState,  \* PlannerProvider.workflowState
  stored,         \* context.workspaceState under WORKFLOW_STATE_KEY
  isInitialized,  \* GeminiService.isInitialized
  model,          \* GeminiService.model is set (not null)
  apiKey,         \* whether getApiKey() finds a key now
  sidebar,        \* the fields of the SidebarProvider
  analysis,       \* one call of CodebaseAnalyzer.analyzeWorkspace: workspace and result
  calls,          \* the bag of PlannerProvider operations in flight
  last,           \* the step taken last and what it showed the user
  gen             \* one call of the GeminiService on its own: input and result

vars == <<workflowState, stored, isInitialized, model, apiKey, calls, last, gen,
          sidebar, analysis>>

\* the GeminiService and the settings it reads
service == <<isInitialized, model, apiKey>>

\* what the planner view does not touch
beside == <<sidebar, analysis>>

Phases == {"idle", "clarification", "planning", "ready"}

\* lines 381-387 and 412-418
EmptyWorkflowState ==
  [phase |-> "idle", userRequest |-> <<>>, clarificationQuestions |-> <<>>,
   clarificationAnswers |-> <<>>, plan |-> <<>>]

\* workspaceState.get of a key never written
Absent == [phase |-> "absent", userRequest |-> <<>>, clarificationQuestions |-> <<>>,
           clarificationAnswers |-> <<>>, plan |-> <<>>]

\* the state written without the answers
saveWorkflowStateWithoutAnswers(ws) == [ws EXCEPT !.clarificationAnswers = <<>>]

\* line 400: the whole state is written under the key
saveWorkflowState(ws) == ws

\* the saved state taken over without its plan
loadWorkflowStateWithoutPlan(savedState) ==
  IF savedState # Absent THEN [savedState EXCEPT !.plan = <<>>] ELSE EmptyWorkflowState

\* lines 403-409: a saved state replaces the default one
loadWorkflowState(savedState) ==
  IF savedState # Absent THEN savedState ELSE EmptyWorkflowState

\* the plan left out of the fresh state
resetWorkflowStateKeepingPlan ==
  [EmptyWorkflowState EXCEPT !.plan = workflowState.plan]

\* only the phase set back
resetWorkflowStatePhaseOnly == [workflowState EXCEPT !.phase = "idle"]

\* lines 411-421
resetWorkflowState == EmptyWorkflowState

\* an operation in flight: the method, the await it is suspended at, its
\* local variables, and the calls of fileManipulator.applyPlanItem it has
\* made with what became of each
Call ==
  [op |-> "none", pc |-> "", userRequest |-> <<>>,
   plan |-> <<>>, index |-> 0, successCount |-> 0, log |-> <<>>]

\* line 755: one call of applyPlanItem, resolved (ok) or rejected
Applied(planItem, ok) == [item |-> planItem, ok |-> ok]

Event(op, step) == [op |-> op, step |-> step, applied |-> 0, total |-> 0]

NoneInFlight == calls = EmptyBag
CanBegin == BagCardinality(calls) < MaxPending

\* an operation suspends at its first await; goes on to another; returns
Suspend(call) == calls (+) SetToBag({call})
Finish(a) == calls (-) SetToBag({a})
Continue(a, call) == (calls (-) SetToBag({a})) (+) SetToBag({call})

\* the user cancels an input box or dismisses a message
Cancelled == "cancelled"

(***************************************************************************)
(* GeminiService: the connection                                           *)
(***************************************************************************)
\* this.isInitialized and this.model as a pair
Connection(initialized, hasModel) == [isInitialized |-> initialized, model |-> hasModel]

\* lines 12 and 11: the fields of a new GeminiService
NotConnected == Connection(FALSE, FALSE)

\* the flag set although no key was found
initializeGeminiWithoutKey(connection, key, handshake) ==
  IF ~handshake THEN connection ELSE Connection(TRUE, TRUE)

\* lines 19-55: without a key the method warns and returns; with one it
\* builds the client and the model and sets the flag, unless building
\* them throws (handshake FALSE), which the catch turns into a message
initializeGemini(connection, key, handshake) ==
  IF ~key THEN connection
  ELSE IF ~handshake THEN connection
  ELSE Connection(TRUE, TRUE)

\* the settings looked up at every call
ensureInitializedByKey == apiKey

\* lines 57-60 (initializationPromise is settled by microtasks only)
ensureInitialized == isInitialized /\ model

(***************************************************************************)
(* What the user and the backend may do                                    *)
(***************************************************************************)
RequestInputs == {ReqAuth0, ReqGeneric, ReqUpper, ReqShort, ReqPadded, ReqBlank, ReqEmpty}
\* the inputs of the runs in which operations overlap
OverlapRequests == {ReqGeneric, ReqShort}
OverlapAnswers == {AnsPadded, AnsShort}
AnswerInputs == {AnsOk, AnsPadded, AnsShort, AnsEmpty}

QuestionBackends ==
  { BackendThrows,
    BackendText(<<"q", "?">>),
    BackendText(<<"q", "?", "\n", " ", "?", "\n", "q">>),
    BackendText(<<"q">>) }

ItemOk == ObjectValue(StringField(<<"a">>), ActionField("new"), StringField(<<"d">>))
ItemEmptyFile == ObjectValue(StringField(<<>>), ActionField("modify"), StringField(<<"d">>))
ItemBadAction == ObjectValue(StringField(<<"a">>), ActionField("create"), StringField(<<"d">>))

PlanBackends ==
  { BackendThrows,
    BackendText(<<LBracket, Literal(ItemOk), RBracket>>),
    BackendText(<<FenceJson, NewLine, LBracket, Literal(ItemBadAction), Comma,
                  Literal(ItemEmptyFile), RBracket, NewLine, Fence>>),
    BackendText(<<Prose>>) }

OverlapQuestionBackends == {BackendThrows, BackendText(<<"q", "?">>)}
OverlapPlanBackends == {BackendText(<<Prose>>), BackendText(<<LBracket, Literal(ItemOk), RBracket>>)}

(***************************************************************************)
(* PlannerProvider.generatePlan                                            *)
(***************************************************************************)
\* the length taken of the value as typed, not of value.trim()
validateRequestUntrimmed(value) ==
  IF value = <<>> \/ Len(value) < 10
  THEN "Please enter a more detailed request (at least 10 characters)"
  ELSE ""

\* lines 609-614: the message the input box shows, "" for none
validateRequest(value) ==
  IF value = <<>> \/ Len(trim(value)) < 10
  THEN "Please enter a more detailed request (at least 10 characters)"
  ELSE ""

\* the request is not written into the state
beginClarificationWithoutRequest(ws, userRequest) ==
  [ws EXCEPT !.phase = "clarification",
             !.clarificationQuestions = <<>>, !.clarificationAnswers = <<>>]

\* lines 621-624
beginClarification(ws, userRequest) ==
  [ws EXCEPT !.userRequest = trim(userRequest), !.phase = "clarification",
             !.clarificationQuestions = <<>>, !.clarificationAnswers = <<>>]

\* lines 632-647: what the questions' arrival does to the state
questionsArrived(ws, result) ==
  IF result.threw \/ Len(result.value) = 0
  THEN [ws EXCEPT !.phase = "idle"]
  ELSE [ws EXCEPT !.clarificationQuestions = result.value]

questionsStep(result) ==
  IF result.threw \/ Len(result.value) = 0 THEN "failed" ELSE "questions"

\* lines 600-606: the command; it opens the input box only in phase idle
GeneratePlanCall ==
  /\ CanBegin
  /\ IF workflowState.phase # "idle"
     THEN /\ calls' = calls
          /\ last' = Event("generatePlan", "notIdle")
     ELSE /\ calls' = Suspend([Call EXCEPT !.op = "generatePlan", !.pc = "input"])
          /\ last' = Event("generatePlan", "open")
  /\ UNCHANGED <<workflowState, stored, service, gen, beside>>

\* lines 606-630: the user types a request into the box and presses Enter.
\* The box keeps open on a value its validateInput objects to and shows the
\* message; a value it accepts resolves the box, and the method runs to its
\* next await.
GeneratePlanInput(a, value) ==
  /\ a \in BagToSet(calls) /\ a.op = "generatePlan" /\ a.pc = "input"
  /\ IF validateRequest(value) # ""
     THEN /\ last' = Event("generatePlan", "invalid")
          /\ UNCHANGED <<workflowState, stored, calls>>
     ELSE IF value = <<>>
     THEN /\ calls' = Finish(a)
          /\ last' = Event("generatePlan", Cancelled)
          /\ UNCHANGED <<workflowState, stored>>
     ELSE LET begun == beginClarification(workflowState, value)
          IN  IF ensureInitialized
              THEN /\ workflowState' = begun
                   /\ stored' = saveWorkflowState(begun)
                   /\ calls' = Continue(a, [a EXCEPT !.pc = "backend", !.userRequest = value])
                   /\ last' = Event("generatePlan", "pending")
              ELSE LET result == generateClarificationQuestions(value, FALSE, BackendThrows)
                       done == questionsArrived(begun, result)
                   IN  /\ workflowState' = done
                       /\ stored' = saveWorkflowState(done)
                       /\ calls' = Finish(a)
                       /\ last' = Event("generatePlan", questionsStep(result))
  /\ UNCHANGED <<service, gen, beside>>

\* lines 617-619: the user dismisses the box
GeneratePlanCancel(a) ==
  /\ a \in BagToSet(calls) /\ a.op = "generatePlan" /\ a.pc = "input"
  /\ calls' = Finish(a)
  /\ last' = Event("generatePlan", Cancelled)
  /\ UNCHANGED <<workflowState, stored, service, gen, beside>>

\* lines 630-648: the backend answers (or fails) and the method resumes
GeneratePlanResume(a, backend) ==
  /\ a \in BagToSet(calls) /\ a.op = "generatePlan" /\ a.pc = "backend"
  /\ LET result == generateClarificationQuestions(a.userRequest, TRUE, backend)
         done == questionsArrived(workflowState, result)
     IN  /\ workflowState' = done
         /\ stored' = saveWorkflowState(done)
         /\ last' = Event("generatePlan", questionsStep(result))
  /\ calls' = Finish(a)
  /\ UNCHANGED <<service, gen, beside>>

(***************************************************************************)
(* PlannerProvider.answerNextQuestion                                      *)
(***************************************************************************)
\* lines 666-671
validateAnswer(value) ==
  IF value = <<>> \/ Len(trim(value)) < 2
  THEN "Please provide a meaningful answer"
  ELSE ""

\* the bound compared with > where the code has >=
hasNextQuestionOffByOne(ws) ==
  ~(Len(ws.clarificationAnswers) > Len(ws.clarificationQuestions))

\* lines 656-659: is there a question left to answer
hasNextQuestion(ws) ==
  ~(Len(ws.clarificationAnswers) >= Len(ws.clarificationQuestions))

\* the answer put in front of the earlier ones
pushAnswerInFront(ws, answer) ==
  [ws EXCEPT !.clarificationAnswers = <<trim(answer)>> \o @]

\* line 678
pushAnswer(ws, answer) ==
  [ws EXCEPT !.clarificationAnswers = Append(@, trim(answer))]

\* lines 651-662
AnswerNextQuestionCall ==
  /\ CanBegin
  /\ IF workflowState.phase # "clarification"
     THEN /\ calls' = calls
          /\ last' = Event("answerNextQuestion", "notClarification")
     ELSE IF ~hasNextQuestion(workflowState)
     THEN /\ calls' = calls
          /\ last' = Event("answerNextQuestion", "noQuestionLeft")
     ELSE /\ calls' = Suspend([Call EXCEPT !.op = "answerNextQuestion", !.pc = "input",
                                          !.index = Len(workflowState.clarificationAnswers)])
          /\ last' = Event("answerNextQuestion", "open")
  /\ UNCHANGED <<workflowState, stored, service, gen, beside>>

\* lines 662-687
AnswerNextQuestionInput(a, value) ==
  /\ a \in BagToSet(calls) /\ a.op = "answerNextQuestion" /\ a.pc = "input"
  /\ IF validateAnswer(value) # ""
     THEN /\ last' = Event("answerNextQuestion", "invalid")
          /\ UNCHANGED <<workflowState, stored, calls>>
     ELSE IF value = <<>>
     THEN /\ calls' = Finish(a)
          /\ last' = Event("answerNextQuestion", Cancelled)
          /\ UNCHANGED <<workflowState, stored>>
     ELSE LET pushed == pushAnswer(workflowState, value)
          IN  /\ workflowState' = pushed
              /\ stored' = saveWorkflowState(pushed)
              /\ calls' = Finish(a)
              /\ last' = Event("answerNextQuestion", "recorded")
  /\ UNCHANGED <<service, gen, beside>>

\* lines 674-676
AnswerNextQuestionCancel(a) ==
  /\ a \in BagToSet(calls) /\ a.op = "answerNextQuestion" /\ a.pc = "input"
  /\ calls' = Finish(a)
  /\ last' = Event("answerNextQuestion", Cancelled)
  /\ UNCHANGED <<workflowState, stored, service, gen, beside>>

(***************************************************************************)
(* PlannerProvider.submitClarification                                     *)
(***************************************************************************)
\* only more answers than questions count as an incomplete set
allAnsweredOrFewer(ws) ==
  ~(Len(ws.clarificationAnswers) > Len(ws.clarificationQuestions))

\* line 695
allAnswered(ws) ==
  ~(Len(ws.clarificationAnswers) # Len(ws.clarificationQuestions))

\* the phase set to ready before there is a plan
beginPlanningReady(ws) == [ws EXCEPT !.phase = "ready"]

\* line 700
beginPlanning(ws) == [ws EXCEPT !.phase = "planning"]

\* lines 712-728: what the plan's arrival does to the state
planArrived(ws, result) ==
  IF result.threw \/ Len(result.value) = 0
  THEN [ws EXCEPT !.phase = "clarification"]
  ELSE [ws EXCEPT !.plan = result.value, !.phase = "ready"]

planStep(result) ==
  IF result.threw \/ Len(result.value) = 0 THEN "failed" ELSE "plan"

\* lines 690-710
SubmitClarificationCall ==
  /\ CanBegin
  /\ IF workflowState.phase # "clarification"
     THEN /\ last' = Event("submitClarification", "notClarification")
          /\ UNCHANGED <<workflowState, stored, calls>>
     ELSE IF ~allAnswered(workflowState)
     THEN /\ last' = Event("submitClarification", "incomplete")
          /\ UNCHANGED <<workflowState, stored, calls>>
     ELSE LET begun == beginPlanning(workflowState)
          IN  IF ensureInitialized
              THEN /\ workflowState' = begun
                   /\ stored' = saveWorkflowState(begun)
                   /\ calls' = Suspend([Call EXCEPT !.op = "submitClarification", !.pc = "backend",
                                                  !.userRequest = workflowState.userRequest])
                   /\ last' = Event("submitClarification", "pending")
              ELSE LET result == Gemini_generatePlan(workflowState.userRequest,
                                   workflowState.clarificationAnswers, FALSE, BackendThrows)
                       done == planArrived(begun, result)
                   IN  /\ workflowState' = done
                       /\ stored' = saveWorkflowState(done)
                       /\ calls' = calls
                       /\ last' = Event("submitClarification", planStep(result))
  /\ UNCHANGED <<service, gen, beside>>

\* lines 707-729: the backend answers (or fails) and the method resumes
SubmitClarificationResume(a, backend) ==
  /\ a \in BagToSet(calls) /\ a.op = "submitClarification" /\ a.pc = "backend"
  /\ LET result == Gemini_generatePlan(a.userRequest,
                     workflowState.clarificationAnswers, TRUE, backend)
         done == planArrived(workflowState, result)
     IN  /\ workflowState' = done
         /\ stored' = saveWorkflowState(done)
         /\ last' = Event("submitClarification", planStep(result))
  /\ calls' = Finish(a)
  /\ UNCHANGED <<service, gen, beside>>

(***************************************************************************)
(* PlannerProvider.executeToIDE                                            *)
(***************************************************************************)
\* no test of the phase and of the plan
canExecuteAlways(ws) == TRUE

\* line 733
canExecute(ws) == ~(ws.phase # "ready" \/ Len(ws.plan) = 0)

\* lines 768-770: the closing message, "applied successCount/total"
Executed(successCount, total) ==
  [op |-> "executeToIDE", step |-> "completed", applied |-> successCount, total |-> total]

\* lines 732-743
ExecuteToIDECall ==
  /\ CanBegin
  /\ IF ~canExecute(workflowState)
     THEN /\ calls' = calls
          /\ last' = Event("executeToIDE", "noPlan")
     ELSE /\ calls' = Suspend([Call EXCEPT !.op = "executeToIDE", !.pc = "confirm"])
          /\ last' = Event("executeToIDE", "confirm")
  /\ UNCHANGED <<workflowState, stored, service, gen, beside>>

\* lines 745-747: anything but "Yes, Execute Plan"
ExecuteToIDEDecline(a) ==
  /\ a \in BagToSet(calls) /\ a.op = "executeToIDE" /\ a.pc = "confirm"
  /\ calls' = Finish(a)
  /\ last' = Event("executeToIDE", Cancelled)
  /\ UNCHANGED <<workflowState, stored, service, gen, beside>>

\* lines 745-755: "Yes, Execute Plan"; the loop takes the plan array as it
\* is now and awaits applyPlanItem of its first entry
ExecuteToIDEConfirm(a) ==
  /\ a \in BagToSet(calls) /\ a.op = "executeToIDE" /\ a.pc = "confirm"
  /\ IF Len(workflowState.plan) = 0
     THEN /\ workflowState' = resetWorkflowState
          /\ stored' = saveWorkflowState(resetWorkflowState)
          /\ calls' = Finish(a)
          /\ last' = Executed(0, 0)
     ELSE /\ calls' = Continue(a, [a EXCEPT !.pc = "apply", !.plan = workflowState.plan,
                                               !.index = 1])
          /\ last' = Event("executeToIDE", "applying")
          /\ UNCHANGED <<workflowState, stored>>
  /\ UNCHANGED <<service, gen, beside>>

\* successCount++ whatever became of the call
countSuccessAlways(successCount, ok) == successCount + 1

\* lines 754-765: successCount++ is skipped when applyPlanItem rejects
countSuccess(successCount, ok) == successCount + (IF ok THEN 1 ELSE 0)

\* the entry after the next one
nextEntrySkipping(index) == index + 2

\* line 753: the array iterator moves to the next entry
nextEntry(index) == index + 1

\* lines 753-772: applyPlanItem of entry index resolves (ok) or rejects; the
\* loop goes on to the next entry, and after the last one reports and resets
ExecuteToIDEApplied(a, ok) ==
  /\ a \in BagToSet(calls) /\ a.op = "executeToIDE" /\ a.pc = "apply"
  /\ LET successCount == countSuccess(a.successCount, ok)
         log == Append(a.log, Applied(a.plan[a.index], ok))
     IN  IF nextEntry(a.index) <= Len(a.plan)
         THEN /\ calls' = Continue(a, [a EXCEPT !.index = nextEntry(@),
                                               !.successCount = successCount, !.log = log])
              /\ last' = Event("executeToIDE", IF ok THEN "applied" ELSE "applyFailed")
              /\ UNCHANGED <<workflowState, stored>>
         ELSE /\ workflowState' = resetWorkflowState
              /\ stored' = saveWorkflowState(resetWorkflowState)
              /\ calls' = Finish(a)
              /\ last' = Executed(successCount, Len(workflowState.plan))
  /\ UNCHANGED <<service, gen, beside>>

(***************************************************************************)
(* PlannerProvider.restartWorkflow                                         *)
(***************************************************************************)
\* lines 778-783
RestartWorkflowCall ==
  /\ CanBegin
  /\ calls' = Suspend([Call EXCEPT !.op = "restartWorkflow", !.pc = "confirm"])
  /\ last' = Event("restartWorkflow", "confirm")
  /\ UNCHANGED <<workflowState, stored, service, gen, beside>>

\* lines 785-788: "Yes, Restart"
RestartWorkflowConfirm(a) ==
  /\ a \in BagToSet(calls) /\ a.op = "restartWorkflow" /\ a.pc = "confirm"
  /\ workflowState' = resetWorkflowState
  /\ stored' = saveWorkflowState(resetWorkflowState)
  /\ calls' = Finish(a)
  /\ last' = Event("restartWorkflow", "restarted")
  /\ UNCHANGED <<service, gen, beside>>

\* the state is reset whatever the user picked
RestartWorkflowDeclineResetting(a) ==
  /\ a \in BagToSet(calls) /\ a.op = "restartWorkflow" /\ a.pc = "confirm"
  /\ workflowState' = resetWorkflowState
  /\ stored' = saveWorkflowState(resetWorkflowState)
  /\ calls' = Finish(a)
  /\ last' = Event("restartWorkflow", Cancelled)
  /\ UNCHANGED <<service, gen, beside>>

\* line 785: "Cancel", or the message dismissed
RestartWorkflowDecline(a) ==
  /\ a \in BagToSet(calls) /\ a.op = "restartWorkflow" /\ a.pc = "confirm"
  /\ calls' = Finish(a)
  /\ last' = Event("restartWorkflow", Cancelled)
  /\ UNCHANGED <<workflowState, stored, service, gen, beside>>

(***************************************************************************)
(* A new session: the extension host restarts and activate() constructs    *)
(* a GeminiService and a PlannerProvider over the same workspaceState      *)
(***************************************************************************)
\* lines 876-890 (with 15-17, 19-55 and 391-397): the key is there or it
\* is not, and the new GeminiService connects or does not
Activate ==
  /\ workflowState' = loadWorkflowState(stored)
  /\ calls' = EmptyBag
  /\ \E key \in BOOLEAN, handshake \in BOOLEAN :
       LET connection == initializeGemini(NotConnected, key, handshake)
       IN  /\ apiKey' = key
           /\ isInitialized' = connection.isInitialized
           /\ model' = connection.model
  /\ last' = Event("PlannerProvider", "constructed")
  /\ UNCHANGED <<stored, gen, beside>>

(***************************************************************************)
(* The GeminiService on its own: one call, over every bounded input        *)
(***************************************************************************)
NoGen ==
  [op |-> "none", stage |-> "", userRequest |-> <<>>, initialized |-> FALSE,
   throws |-> FALSE, text |-> <<>>, response |-> <<>>, threw |-> FALSE,
   questions |-> <<>>, plan |-> <<>>, effects |-> <<>>]

\* what a call does besides returning: the requests to the backend and the
\* warnings shown, in order
GenerateContent == "generateContent"
ShowWarningMessage == "showWarningMessage"

\* the request sent again after one that failed
questionsEffectsWithRetry(initialized, backend) ==
  IF ~initialized THEN <<>>
  ELSE IF backend.throws THEN <<GenerateContent, GenerateContent, ShowWarningMessage>>
  ELSE <<GenerateContent>>

\* lines 114-158: no request when not initialized; else one at line 138,
\* and the warning of the catch at 156 when it rejects
questionsEffects(initialized, backend) ==
  IF ~initialized THEN <<>>
  ELSE IF backend.throws THEN <<GenerateContent, ShowWarningMessage>>
  ELSE <<GenerateContent>>

\* lines 167-245: no request when not initialized; else one at line 200,
\* and the warning of the catch at 243 when it rejects or when one of the
\* throws at 212, 215, 218 and 237 is taken
planEffects(initialized, backend) ==
  IF ~initialized THEN <<>>
  ELSE IF backend.throws THEN <<GenerateContent, ShowWarningMessage>>
  ELSE LET match == jsonMatch(stripCodeFences(backend.text))
           failed == \/ match = NoMatch
                     \/ ~JSONparse(match).ok
                     \/ Len(validatePlan(JSONparse(match).elems)) = 0
       IN  IF failed THEN <<GenerateContent, ShowWarningMessage>>
           ELSE <<GenerateContent>>

GenRequests == {ReqAuth0, ReqApi, ReqDatabase, ReqGeneric, ReqUpper, ReqAuthApi, ReqShort, ReqEmpty}

\* the responses to the clarification prompt: every text of at most
\* MaxLines of these lines, joined by line breaks
Lines ==
  { <<>>, <<" ">>, <<"q">>, <<"?">>, <<"q", "?">>, <<" ", "?", " ">>, <<"?", " ", "q">> }

RECURSIVE joinLines(_)
joinLines(lines) ==
  IF lines = <<>> THEN <<>>
  ELSE IF Len(lines) = 1 THEN lines[1]
  ELSE lines[1] \o <<"\n">> \o joinLines(Tail(lines))

\* the responses to the plan prompt: every sequence of these lexemes, and
\* every well-formed array of the items below, bare or in a code fence
PlanLexemes ==
  {LBracket, RBracket, Comma, FenceJson, Fence, NewLine, Prose, Literal(ItemOk)}

Items ==
  { ItemOk, ItemEmptyFile, ItemBadAction,
    ObjectValue(StringField(<<" ", "b", " ">>), ActionField("remove"), StringField(<<" ", "d">>)),
    ObjectValue(StringField(<<"a">>), ActionField("NEW"), StringField(<<"d">>)),
    ObjectValue(StringField(<<"a">>), NoAction, StringField(<<"d">>)),
    ObjectValue(StringField(<<"a">>), NumberAction, StringField(<<"d">>)),
    ObjectValue(Undefined, ActionField("new"), StringField(<<"d">>)),
    ObjectValue(NumberField, ActionField("new"), StringField(<<"d">>)),
    ObjectValue(StringField(<<" ">>), ActionField("new"), StringField(<<"d">>)),
    ObjectValue(StringField(<<"a">>), ActionField("new"), Undefined),
    ObjectValue(StringField(<<"a">>), ActionField("modify"), StringField(<<>>)),
    ObjectValue(StringField(<<"a">>), ActionField("remove"), StringField(<<" ">>)),
    NullValue, NumberValue }

RECURSIVE arrayText(_)
arrayText(items) ==
  IF items = <<>> THEN <<>>
  ELSE IF Len(items) = 1 THEN <<Literal(items[1])>>
  ELSE <<Literal(items[1]), Comma>> \o arrayText(Tail(items))

\* "[", the items separated by commas, "]"
arrayOf(items) == <<LBracket>> \o arrayText(items) \o <<RBracket>>

\* the same array inside a json code fence
fenced(text) == <<FenceJson, NewLine>> \o text \o <<NewLine, Fence>>

GenInput(op, r, initialized, throws, text, response) ==
  [NoGen EXCEPT !.op = op, !.stage = "input", !.userRequest = r,
                !.initialized = initialized, !.throws = throws, !.text = text,
                !.response = response]

\* every request meets the backend missing and the backend failing; the
\* requests of two buckets meet every response
GenTextRequests == {ReqAuth0, ReqDatabase}

GenInputGiven ==
  \/ \E r \in GenRequests, op \in {"questions", "plan"} :
        \/ gen = GenInput(op, r, FALSE, FALSE, <<>>, <<>>)
        \/ gen = GenInput(op, r, TRUE, TRUE, <<>>, <<>>)
  \/ \E r \in GenTextRequests, n \in 0..MaxLines : \E lines \in [1..n -> Lines] :
        gen = GenInput("questions", r, TRUE, FALSE, joinLines(lines), <<>>)
  \/ \E r \in GenTextRequests, n \in 0..MaxRespLen : \E text \in [1..n -> PlanLexemes] :
        gen = GenInput("plan", r, TRUE, FALSE, <<>>, text)
  \/ \E r \in GenTextRequests, n \in 0..MaxItems : \E items \in [1..n -> Items] :
        \/ gen = GenInput("plan", r, TRUE, FALSE, <<>>, arrayOf(items))
        \/ gen = GenInput("plan", r, TRUE, FALSE, <<>>, fenced(arrayOf(items)))

GenBackend(text) == [throws |-> gen.throws, text |-> text]

\* lines 112-159
GenQuestions ==
  /\ gen.op = "questions" /\ gen.stage = "input"
  /\ LET result == generateClarificationQuestions(gen.userRequest, gen.initialized,
                                                  GenBackend(gen.text))
     IN  gen' = [gen EXCEPT !.stage = "done", !.threw = result.threw,
                            !.questions = result.value,
                            !.effects = questionsEffects(gen.initialized, GenBackend(gen.text))]
  /\ UNCHANGED <<workflowState, stored, service, calls, last, beside>>

\* lines 161-246
GenPlan ==
  /\ gen.op = "plan" /\ gen.stage = "input"
  /\ LET result == Gemini_generatePlan(gen.userRequest, <<>>, gen.initialized,
                                       GenBackend(gen.response))
     IN  gen' = [gen EXCEPT !.stage = "done", !.threw = result.threw,
                            !.plan = result.value,
                            !.effects = planEffects(gen.initialized, GenBackend(gen.response))]
  /\ UNCHANGED <<workflowState, stored, service, calls, last, beside>>

(***************************************************************************)
(* The GeminiService over its life: calls, the key set or removed in the   *)
(* settings, refreshApiKey                                                 *)
(***************************************************************************)
\* lines 62-104 read the settings, the environment and the .env files at
\* the time of the call: the user adds or removes the key
SetApiKey(key) ==
  /\ apiKey # key
  /\ apiKey' = key
  /\ UNCHANGED <<workflowState, stored, isInitialized, model, calls, last, gen, beside>>

\* lines 106-110
RefreshApiKey(handshake) ==
  /\ LET connection == initializeGemini(Connection(FALSE, model), apiKey, handshake)
     IN  /\ isInitialized' = connection.isInitialized
         /\ model' = connection.model
  /\ gen' = [NoGen EXCEPT !.op = "refreshApiKey", !.stage = "done",
                          !.initialized = isInitialized]
  /\ UNCHANGED <<workflowState, stored, apiKey, calls, last, beside>>

\* lines 112-159, on the service as it is now
ServiceQuestions(r, backend) ==
  /\ LET result == generateClarificationQuestions(r, ensureInitialized, backend)
     IN  gen' = [GenInput("questions", r, ensureInitialized, backend.throws, backend.text, <<>>)
                   EXCEPT !.stage = "done", !.threw = result.threw,
                          !.questions = result.value,
                          !.effects = questionsEffects(ensureInitialized, backend)]
  /\ UNCHANGED <<workflowState, stored, service, calls, last, beside>>

\* lines 161-246, on the service as it is now
ServicePlan(r, backend) ==
  /\ LET result == Gemini_generatePlan(r, <<>>, ensureInitialized, backend)
     IN  gen' = [GenInput("plan", r, ensureInitialized, backend.throws, <<>>, backend.text)
                   EXCEPT !.stage = "done", !.threw = result.threw,
                          !.plan = result.value,
                          !.effects = planEffects(ensureInitialized, backend)]
  /\ UNCHANGED <<workflowState, stored, service, calls, last, beside>>

(***************************************************************************)
(* SidebarProvider and CodebaseAnalyzer                                    *)
(***************************************************************************)
\* the views resolved in one session, the messages of the web view being
\* handled at once, and the answers submitted without a restart
MaxViews == 2
MaxMessages == 2
MaxSubmitted == 2

\* a CodebaseContext, named by the analysis that built it; undefined
NoContext == [analysis |-> 0]
Context(k) == [analysis |-> k]

\* sidebarProvider.ts lines 10-16, with the analyses started and running,
\* the handlers awaiting the GeminiService, and the sections of the web
\* view that are not hidden (lines 533-575); sinceRequest is history, the
\* answers that arrived after the last assignment to currentRequest
NewSidebar(workspaceFolders) ==
  [view |-> 0, workspaceFolders |-> workspaceFolders,
   codebaseContext |-> NoContext,
   currentRequest |-> <<>>, clarificationQuestions |-> <<>>,
   clarificationAnswers |-> <<>>, currentPlan |-> <<>>,
   analyses |-> 0, running |-> {}, pending |-> EmptyBag,
   visible |-> {}, sinceRequest |-> <<>>]

NoSidebar == NewSidebar(FALSE)

\* a handler suspended at its await of the GeminiService, with the
\* arguments it passed
SidebarCall(op, userRequest, clarificationAnswers, context) ==
  [op |-> op, userRequest |-> userRequest,
   clarificationAnswers |-> clarificationAnswers, context |-> context]

\* what the user types in the text areas of the web view
TypedRequests == {ReqGeneric, ReqPadded, ReqBlank}
TypedAnswers == {AnsPadded, AnsEmpty}

\* lines 60-68: up to the await of analyzeWorkspace
initializeCodebaseContext(sb) ==
  [sb EXCEPT !.analyses = @ + 1,
             !.running = @ \cup {sb.analyses + 1}]

\* lines 26-58; the web view starts with the request section shown
ResolveWebviewView ==
  /\ sidebar.view < MaxViews
  /\ sidebar' = initializeCodebaseContext(
                  [sidebar EXCEPT !.view = @ + 1, !.visible = {"request"}])
  /\ UNCHANGED <<workflowState, stored, service, calls, last, gen, analysis>>

\* lines 68-86: analyzeWorkspace resolves, or rejects when there is no
\* workspace folder (codebaseAnalyzer.ts 25-28)
InitializeCodebaseContextResume(k) ==
  /\ k \in sidebar.running
  /\ sidebar' = [sidebar EXCEPT
                   !.running = @ \ {k},
                   !.codebaseContext = IF sidebar.workspaceFolders THEN Context(k) ELSE @]
  /\ UNCHANGED <<workflowState, stored, service, calls, last, gen, analysis>>

\* lines 599-607 and 89-98: the click on Generate Plan, up to the await
HandleGeneratePlan(text) ==
  /\ sidebar.view > 0
  /\ "request" \in sidebar.visible
  /\ trim(text) # <<>>
  /\ BagCardinality(sidebar.pending) < MaxMessages
  /\ sidebar' = [sidebar EXCEPT
                   !.currentRequest = trim(text),
                   !.sinceRequest = <<>>,
                   !.pending = @ (+) SetToBag({SidebarCall("generateClarificationQuestions",
                                  trim(text), <<>>, sidebar.codebaseContext)})]
  /\ UNCHANGED <<workflowState, stored, service, calls, last, gen, analysis>>

\* lines 98-105 and 682-690: the questions arrive
HandleGeneratePlanResume(p, backend) ==
  /\ p \in BagToSet(sidebar.pending)
  /\ p.op = "generateClarificationQuestions"
  /\ LET clarifications == generateClarificationQuestions(p.userRequest, ensureInitialized, backend).value
     IN  sidebar' = [sidebar EXCEPT
                       !.pending = @ (-) SetToBag({p}),
                       !.clarificationQuestions = clarifications,
                       !.visible = (@ \ {"request"}) \cup {"clarification"}]
  /\ UNCHANGED <<workflowState, stored, service, calls, last, gen, analysis>>

\* lines 609-617 and 114-127: the click on Submit Answer, up to the await
HandleSubmitAnswer(text) ==
  /\ sidebar.view > 0
  /\ "clarification" \in sidebar.visible
  /\ trim(text) # <<>>
  /\ Len(sidebar.clarificationAnswers) < MaxSubmitted
  /\ BagCardinality(sidebar.pending) < MaxMessages
  /\ LET answers == Append(sidebar.clarificationAnswers, trim(text))
     IN  sidebar' = [sidebar EXCEPT
                       !.clarificationAnswers = answers,
                       !.sinceRequest = Append(@, trim(text)),
                       !.pending = @ (+) SetToBag({SidebarCall("generatePlan",
                                      sidebar.currentRequest, answers, sidebar.codebaseContext)})]
  /\ UNCHANGED <<workflowState, stored, service, calls, last, gen, analysis>>

\* lines 128-133 and 692-705: the plan arrives
HandleSubmitAnswerResume(p, backend) ==
  /\ p \in BagToSet(sidebar.pending)
  /\ p.op = "generatePlan"
  /\ LET plan == Gemini_generatePlan(p.userRequest, p.clarificationAnswers, ensureInitialized, backend).value
     IN  sidebar' = [sidebar EXCEPT
                       !.pending = @ (-) SetToBag({p}),
                       !.currentPlan = plan,
                       !.visible = (@ \ {"clarification"}) \cup {"plan"}]
  /\ UNCHANGED <<workflowState, stored, service, calls, last, gen, analysis>>

\* lines 619-623, 142-154, 163-174 and 707-720: one prompt for each plan item
HandleExecuteToIDE ==
  /\ sidebar.view > 0
  /\ "plan" \in sidebar.visible
  /\ sidebar' = [sidebar EXCEPT
                   !.visible = (@ \ {"plan"}) \cup {"copilot"}]
  /\ UNCHANGED <<workflowState, stored, service, calls, last, gen, analysis>>

\* lines 625-631, 194-203 and 735-745: one of the Start Over buttons
HandleRestartWorkflow ==
  /\ sidebar.view > 0
  /\ sidebar.visible \cap {"clarification", "plan", "copilot"} # {}
  /\ sidebar' = [sidebar EXCEPT
                   !.currentRequest = <<>>,
                   !.sinceRequest = <<>>,
                   !.clarificationQuestions = <<>>,
                   !.clarificationAnswers = <<>>,
                   !.currentPlan = <<>>,
                   !.visible = {"request"}]
  /\ UNCHANGED <<workflowState, stored, service, calls, last, gen, analysis>>

(***************************************************************************)
(* CodebaseAnalyzer                                                        *)
(***************************************************************************)
\* codebaseAnalyzer.ts lines 21-22
maxFileSize == 50000
maxTotalFiles == 20

\* lines 51-67, in the order of the loop
keyFilePatterns ==
  << "**/package.json", "**/tsconfig.json", "**/next.config.*", "**/vite.config.*",
     "**/webpack.config.*", "**/tailwind.config.*",
     "**/src/**/*.{ts,tsx,js,jsx}", "**/app/**/*.{ts,tsx,js,jsx}",
     "**/pages/**/*.{ts,tsx,js,jsx}", "**/components/**/*.{ts,tsx,js,jsx}",
     "**/lib/**/*.{ts,tsx,js,jsx}", "**/utils/**/*.{ts,tsx,js,jsx}",
     "**/*.md", "**/Dockerfile", "**/.env*" >>

\* what JSON.parse makes of the content of a file: it throws, or gives a
\* value that is not an object, or an object with these keys under
\* dependencies and devDependencies
Unparsable == [parses |-> FALSE, object |-> FALSE, dependencies |-> <<>>, devDependencies |-> <<>>]
JsonNull == [parses |-> TRUE, object |-> FALSE, dependencies |-> <<>>, devDependencies |-> <<>>]
Manifest(dependencies, devDependencies) ==
  [parses |-> TRUE, object |-> TRUE, dependencies |-> dependencies,
   devDependencies |-> devDependencies]

\* the earliest pattern of a set of patterns (positions in keyFilePatterns)
earliest(patterns) == CHOOSE i \in patterns : \A j \in patterns : i <= j

\* a file of the workspace: the patterns its path matches, its size from
\* stat, whether stat and readFile succeed, and what its content parses to;
\* the path is named by the earliest pattern and a number
File(n, patterns, size, readable, json) ==
  [path |-> <<earliest(patterns), n>>, patterns |-> patterns, size |-> size,
   readable |-> readable, json |-> json]

\* path.extname of the files the model has: package.json and tsconfig.json,
\* *.config.js, *.ts under the source directories, *.md, Dockerfile, .env
extname(file) ==
  LET i == earliest(file.patterns)
  IN  IF i <= 2 THEN ".json"
      ELSE IF i <= 6 THEN ".js"
      ELSE IF i <= 12 THEN ".ts"
      ELSE IF i = 13 THEN ".md"
      ELSE ""

\* lines 202-221
getLanguageFromPath(file) ==
  LET ext == extname(file)
  IN  IF ext = ".ts" THEN "TypeScript"
      ELSE IF ext = ".js" THEN "JavaScript"
      ELSE IF ext = ".json" THEN "JSON"
      ELSE IF ext = ".md" THEN "Markdown"
      ELSE "Unknown"

\* lines 82-90: the whole content and the size stat gave
FileInfo(file) ==
  [path |-> file.path,
   content |-> [bytes |-> file.size, json |-> file.json],
   language |-> getLanguageFromPath(file),
   size |-> file.size]

\* line 73: the files matching the pattern, as the workspace lists them, at
\* most maxResults of them
findFiles(workspace, pattern, maxResults) ==
  slice0(SelectSeq(workspace, LAMBDA file : pattern \in file.patterns), maxResults)

\* the loop without the test of the size
visitFoundFilesAnySize(files, foundFiles) ==
  LET RECURSIVE visit(_, _)
      visit(kept, found) ==
        IF found = <<>> THEN kept
        ELSE IF Len(kept) >= maxTotalFiles THEN kept
        ELSE IF ~Head(found).readable THEN visit(kept, Tail(found))
        ELSE visit(Append(kept, FileInfo(Head(found))), Tail(found))
  IN  visit(files, foundFiles)

\* lines 75-94: break at the cap, skip what is larger than maxFileSize and
\* what stat or readFile rejects
visitFoundFiles(files, foundFiles) ==
  LET RECURSIVE visit(_, _)
      visit(kept, found) ==
        IF found = <<>> THEN kept
        ELSE IF Len(kept) >= maxTotalFiles THEN kept
        ELSE IF ~Head(found).readable THEN visit(kept, Tail(found))
        ELSE IF Head(found).size > maxFileSize THEN visit(kept, Tail(found))
        ELSE visit(Append(kept, FileInfo(Head(found))), Tail(found))
  IN  visit(files, foundFiles)

\* [...new Set(seq)]: the first occurrence of each element, in order
RECURSIVE unique(_)
unique(seq) ==
  IF seq = <<>> THEN <<>>
  ELSE LET rest == unique(SubSeq(seq, 1, Len(seq) - 1))
           x == seq[Len(seq)]
       IN  IF \E i \in 1..Len(rest) : rest[i] = x THEN rest ELSE Append(rest, x)

\* the same without the try and catch around JSON.parse
extractDependenciesUncaught(files) ==
  LET manifests == SelectSeq(files, LAMBDA f : f.path[1] = 1)
  IN  IF manifests = <<>> THEN Returned(<<>>)
      ELSE LET packageJson == Head(manifests).content.json
           IN  IF ~packageJson.parses \/ ~packageJson.object THEN Rejected
               ELSE Returned(unique(packageJson.dependencies \o packageJson.devDependencies))

\* lines 103-121: the keys of the first package.json kept; none when its
\* content does not parse (JSON.parse throws) or parses to null (reading
\* .dependencies throws), both caught at 115
extractDependencies(files) ==
  LET manifests == SelectSeq(files, LAMBDA f : f.path[1] = 1)
  IN  IF manifests = <<>> THEN Returned(<<>>)
      ELSE LET packageJson == Head(manifests).content.json
           IN  IF ~packageJson.parses \/ ~packageJson.object THEN Returned(<<>>)
               ELSE Returned(unique(packageJson.dependencies \o packageJson.devDependencies))

\* lines 123-142
detectFrameworks(files, dependencies) ==
  LET has(name) == \E i \in 1..Len(dependencies) : dependencies[i] = name
      some(pattern) == \E i \in 1..Len(files) : files[i].path[1] = pattern
      checks == << <<has("next"), "Next.js">>, <<has("react"), "React">>,
                   <<has("vue"), "Vue.js">>, <<has("svelte"), "Svelte">>,
                   <<has("express"), "Express">>, <<has("fastify"), "Fastify">>,
                   <<has("tailwindcss"), "Tailwind CSS">>, <<has("typescript"), "TypeScript">>,
                   <<some(3), "Next.js">>, <<some(4), "Vite">>, <<some(6), "Tailwind CSS">> >>
      pushed == SelectSeq(checks, LAMBDA c : c[1])
  IN  unique([i \in 1..Len(pushed) |-> pushed[i][2]])

\* lines 144-152
detectLanguages(files) == unique([i \in 1..Len(files) |-> files[i].language])

\* lines 154-162
determineProjectType(frameworks, files) ==
  LET has(name) == \E i \in 1..Len(frameworks) : frameworks[i] = name
  IN  IF has("Next.js") THEN "Next.js Application"
      ELSE IF has("React") THEN "React Application"
      ELSE IF has("Vue.js") THEN "Vue.js Application"
      ELSE IF has("Svelte") THEN "Svelte Application"
      ELSE IF has("Express") THEN "Node.js Backend"
      ELSE IF \E i \in 1..Len(files) : files[i].path[1] = 1 THEN "Node.js Project"
      ELSE "Web Project"

\* an entry of a directory: a file, or a directory that readDirectory can
\* or cannot list
Entry(name, isDirectory, readable, entries) ==
  [name |-> name, isDirectory |-> isDirectory, readable |-> readable, entries |-> entries]

\* lines 174-200: one line for each entry, indented by its depth; names
\* starting with a dot and node_modules left out; a directory that cannot
\* be listed contributes nothing
RECURSIVE buildDirectoryTree(_, _, _)
buildDirectoryTree(dir, currentDepth, maxDepth) ==
  LET RECURSIVE list(_)
      list(entries) ==
        IF entries = <<>> THEN <<>>
        ELSE LET e == Head(entries)
             IN  IF Head(e.name) = "." \/ e.name = <<"n","o","d","e","_","m","o","d","u","l","e","s">>
                 THEN list(Tail(entries))
                 ELSE <<[indent |-> currentDepth, name |-> e.name]>>
                      \o (IF e.isDirectory /\ currentDepth < maxDepth - 1
                          THEN buildDirectoryTree(e, currentDepth + 1, maxDepth)
                          ELSE <<>>)
                      \o list(Tail(entries))
  IN  IF currentDepth >= maxDepth THEN <<>>
      ELSE IF ~dir.readable THEN <<>>
      ELSE list(dir.entries)

\* lines 164-172
generateStructure(root) == buildDirectoryTree(root, 0, 3)

\* one call of analyzeWorkspace: the workspace it runs in and where it is
NoAnalysis ==
  [stage |-> "", workspaceFolders |-> FALSE, workspace |-> <<>>, rejected |-> {},
   root |-> Entry(<<>>, TRUE, FALSE, <<>>), pattern |-> 0, files |-> <<>>,
   threw |-> FALSE, keyFiles |-> <<>>, dependencies |-> <<>>, frameworks |-> <<>>,
   languages |-> <<>>, projectType |-> "", structure |-> <<>>]

\* the directory trees of the scenarios: src/a/b/c.ts four levels deep
\* beside .git and node_modules; the same with src unreadable; a root that
\* cannot be listed
DirSrc(readable) ==
  Entry(<<"s","r","c">>, TRUE, readable,
        << Entry(<<"a">>, TRUE, TRUE,
                 << Entry(<<"b">>, TRUE, TRUE,
                          << Entry(<<"c",".","t","s">>, FALSE, TRUE, <<>>) >>) >>),
           Entry(<<"i",".","t","s">>, FALSE, TRUE, <<>>) >>)
Root(readable, srcReadable) ==
  Entry(<<>>, TRUE, readable,
        << Entry(<<".","g","i","t">>, TRUE, TRUE, <<>>),
           Entry(<<"n","o","d","e","_","m","o","d","u","l","e","s">>, TRUE, TRUE, <<>>),
           DirSrc(srcReadable),
           Entry(<<"R",".","m","d">>, FALSE, TRUE, <<>>) >>)
Roots == {Root(TRUE, TRUE), Root(TRUE, FALSE), Root(FALSE, TRUE)}

\* the workspaces of the scenarios: count files matching pattern p, one of
\* them (at position odd, if any) of the size and readability given, then
\* a file matching both p and q when shared, then files matching q
Files(p, count, odd, size, readable, json) ==
  [n \in 1..count |->
     IF n = odd THEN File(n, {p}, size, readable, json)
     ELSE File(n, {p}, n, TRUE, json)]
Workspace(p, count, odd, size, readable, json, q, shared, others) ==
  Files(p, count, odd, size, readable, json)
    \o (IF shared THEN <<File(count + 1, {p, q}, 1, TRUE, Unparsable)>> ELSE <<>>)
    \o Files(q, others, 0, 0, TRUE, Unparsable)

Manifests == {Unparsable, JsonNull, Manifest(<<"next", "react">>, <<"typescript", "react">>)}

AnalysisGiven ==
  \/ analysis = [NoAnalysis EXCEPT !.stage = "given"]
  \/ \E p \in {1, 7}, q \in {10, 13}, count \in {0, 1, 19, 20, 21}, others \in {0, 2},
        shared \in BOOLEAN, rejects \in BOOLEAN, root \in Roots :
       \E odd \in {0, 1, count}, kind \in {<<maxFileSize + 1, TRUE>>, <<maxFileSize, TRUE>>, <<1, FALSE>>},
          json \in Manifests :
         /\ odd = 0 => kind = <<1, FALSE>>
         /\ p # 1 => json = Unparsable
         /\ shared => (p = 7 /\ q = 10)
         /\ rejects => (count = 1 /\ odd = 0)
         /\ analysis = [NoAnalysis EXCEPT
                          !.stage = "given", !.workspaceFolders = TRUE,
                          !.workspace = Workspace(p, count, odd, kind[1], kind[2], json, q, shared, others),
                          !.rejected = IF rejects THEN {p} ELSE {},
                          !.root = root]

\* lines 24-30
AnalyzeWorkspaceCall ==
  /\ analysis.stage = "given"
  /\ analysis' = IF ~analysis.workspaceFolders
                 THEN [analysis EXCEPT !.stage = "done", !.threw = TRUE]
                 ELSE [analysis EXCEPT !.stage = "findKeyFiles", !.pattern = 1]
  /\ UNCHANGED <<workflowState, stored, service, calls, last, gen, sidebar>>

\* lines 71-98: one pattern of the loop; a findFiles that rejects is caught
\* at 95 and the pattern contributes nothing
FindKeyFilesPattern ==
  /\ analysis.stage = "findKeyFiles"
  /\ analysis.pattern <= Len(keyFilePatterns)
  /\ analysis' = [analysis EXCEPT
                    !.pattern = @ + 1,
                    !.files = IF analysis.pattern \in analysis.rejected THEN @
                              ELSE visitFoundFiles(@, findFiles(analysis.workspace,
                                                   analysis.pattern, maxTotalFiles))]
  /\ UNCHANGED <<workflowState, stored, service, calls, last, gen, sidebar>>

\* lines 100 and 33-47
AnalyzeWorkspaceReturn ==
  /\ analysis.stage = "findKeyFiles"
  /\ analysis.pattern > Len(keyFilePatterns)
  /\ LET keyFiles == slice0(analysis.files, maxTotalFiles)
         dependencies == extractDependencies(keyFiles)
         frameworks == detectFrameworks(keyFiles, dependencies.value)
     IN  analysis' = IF dependencies.threw
                     THEN [analysis EXCEPT !.stage = "done", !.threw = TRUE]
                     ELSE [analysis EXCEPT
                             !.stage = "done",
                             !.keyFiles = keyFiles,
                             !.dependencies = dependencies.value,
                             !.frameworks = frameworks,
                             !.languages = detectLanguages(keyFiles),
                             !.projectType = determineProjectType(frameworks, keyFiles),
                             !.structure = generateStructure(analysis.root)]
  /\ UNCHANGED <<workflowState, stored, service, calls, last, gen, sidebar>>


(***************************************************************************)
(* Specifications                                                          *)
(***************************************************************************)
InitEngine ==
  /\ workflowState = EmptyWorkflowState
  /\ stored = Absent
  /\ calls = EmptyBag
  /\ last = Event("PlannerProvider", "constructed")

\* lines 15-17 with 19-55: a GeminiService as its constructor leaves it
InitService ==
  \E key \in BOOLEAN, handshake \in BOOLEAN :
    LET connection == initializeGemini(NotConnected, key, handshake)
    IN  /\ apiKey = key
        /\ isInitialized = connection.isInitialized
        /\ model = connection.model

\* the SidebarProvider and the CodebaseAnalyzer before they are used
InitBeside ==
  /\ sidebar = NoSidebar
  /\ analysis = NoAnalysis

Init ==
  /\ InitEngine
  /\ InitService
  /\ InitBeside
  /\ gen = NoGen

\* a command of the extension is invoked
Begin ==
  \/ GeneratePlanCall
  \/ AnswerNextQuestionCall
  \/ SubmitClarificationCall
  \/ ExecuteToIDECall
  \/ RestartWorkflowCall

\* an operation in flight resumes after its await, on what the user typed
\* or chose, or on what the backend sent
Resume(a, requests, answers, questionBackends, planBackends) ==
  \/ \E value \in requests : GeneratePlanInput(a, value)
  \/ GeneratePlanCancel(a)
  \/ \E backend \in questionBackends : GeneratePlanResume(a, backend)
  \/ \E value \in answers : AnswerNextQuestionInput(a, value)
  \/ AnswerNextQuestionCancel(a)
  \/ \E backend \in planBackends : SubmitClarificationResume(a, backend)
  \/ ExecuteToIDEDecline(a)
  \/ ExecuteToIDEConfirm(a)
  \/ \E ok \in BOOLEAN : ExecuteToIDEApplied(a, ok)
  \/ RestartWorkflowConfirm(a)
  \/ RestartWorkflowDecline(a)

\* commands may be invoked while earlier ones are still awaiting
Next ==
  \/ Begin
  \/ \E a \in BagToSet(calls) :
        Resume(a, OverlapRequests, OverlapAnswers, OverlapQuestionBackends, OverlapPlanBackends)
  \/ Activate

Spec == Init /\ [][Next]_vars

\* the front end serializes the calls: none begins while another is in flight
NextSeq ==
  \/ NoneInFlight /\ Begin
  \/ \E a \in BagToSet(calls) : Resume(a, RequestInputs, AnswerInputs, QuestionBackends, PlanBackends)
  \/ Activate

SpecSeq == Init /\ [][NextSeq]_vars

\* the GeminiService settles every call it was given: the promise awaited
\* at line 630 or 707 resolves
BackendAnswers ==
  \E a \in BagToSet(calls) :
    \/ \E backend \in QuestionBackends : GeneratePlanResume(a, backend)
    \/ \E backend \in PlanBackends : SubmitClarificationResume(a, backend)

\* calls serialized, and every issued backend call returns or fails
SpecSeqFair == SpecSeq /\ WF_vars(BackendAnswers)

InitGen ==
  /\ InitEngine
  /\ isInitialized = FALSE /\ model = FALSE /\ apiKey = FALSE
  /\ InitBeside
  /\ GenInputGiven

NextGen == GenQuestions \/ GenPlan

SpecGen == InitGen /\ [][NextGen]_vars

NextService ==
  \/ \E key \in BOOLEAN : SetApiKey(key)
  \/ \E handshake \in BOOLEAN : RefreshApiKey(handshake)
  \/ \E r \in GenRequests, backend \in QuestionBackends : ServiceQuestions(r, backend)
  \/ \E r \in GenRequests, backend \in PlanBackends : ServicePlan(r, backend)

SpecService == Init /\ [][NextService]_vars

InitSidebar ==
  /\ InitEngine
  /\ InitService
  /\ gen = NoGen
  /\ analysis = NoAnalysis
  /\ \E workspaceFolders \in BOOLEAN : sidebar = NewSidebar(workspaceFolders)

NextSidebar ==
  \/ ResolveWebviewView
  \/ \E k \in 1..MaxViews : InitializeCodebaseContextResume(k)
  \/ \E text \in TypedRequests : HandleGeneratePlan(text)
  \/ \E p \in BagToSet(sidebar.pending), backend \in OverlapQuestionBackends :
        HandleGeneratePlanResume(p, backend)
  \/ \E text \in TypedAnswers : HandleSubmitAnswer(text)
  \/ \E p \in BagToSet(sidebar.pending), backend \in OverlapPlanBackends :
        HandleSubmitAnswerResume(p, backend)
  \/ HandleExecuteToIDE
  \/ HandleRestartWorkflow

SpecSidebar == InitSidebar /\ [][NextSidebar]_vars

InitAnalyzer ==
  /\ InitEngine
  /\ isInitialized = FALSE /\ model = FALSE /\ apiKey = FALSE
  /\ gen = NoGen
  /\ sidebar = NoSidebar
  /\ AnalysisGiven

NextAnalyzer == AnalyzeWorkspaceCall \/ FindKeyFilesPattern \/ AnalyzeWorkspaceReturn

SpecAnalyzer == InitAnalyzer /\ [][NextAnalyzer]_vars

(***************************************************************************)
(* Properties of the workflow engine, calls serialized (SpecSeq)           *)
(***************************************************************************)
AnswersWithinQuestions ==
  Len(workflowState.clarificationAnswers) <= Len(workflowState.clarificationQuestions)

\* C1: whatever start/answer/submit/execute/restart operations ran, one
\* after the other, there are never more answers than questions; and
\* answerNextQuestion called when there are as many answers as questions
\* changes nothing: not the workflow state, not the stored state, and no
\* input box is opened that could push an answer later.
C1_AnswersNeverExceedQuestions ==
  /\ []AnswersWithinQuestions
  /\ [][ ( /\ AnswerNextQuestionCall
           /\ Len(workflowState.clarificationAnswers)
                = Len(workflowState.clarificationQuestions) )
         => UNCHANGED <<workflowState, stored, calls>> ]_vars

\* every question is answered and one more answerNextQuestion has returned
C1_Witness ==
  /\ last = Event("answerNextQuestion", "noQuestionLeft")
  /\ workflowState.phase = "clarification"
  /\ Len(workflowState.clarificationQuestions) = 3
  /\ Len(workflowState.clarificationAnswers) = 3

\* C2: text that fails the length check mutates nothing. A request whose
\* trimmed length is under 10 leaves the phase idle, the questions empty
\* and the workflow state and the stored state as they were; an answer
\* whose trimmed length is under 2 leaves the answers, the rest of the
\* workflow state and the stored state as they were.
C2_InvalidTextMutatesNothing ==
  [][ /\ \A a \in BagToSet(calls), value \in RequestInputs :
           (GeneratePlanInput(a, value) /\ Len(trim(value)) < 10)
             => /\ UNCHANGED <<workflowState, stored>>
                /\ workflowState'.phase = "idle"
                /\ workflowState'.clarificationQuestions = <<>>
      /\ \A a \in BagToSet(calls), value \in AnswerInputs :
           (AnswerNextQuestionInput(a, value) /\ Len(trim(value)) < 2)
             => UNCHANGED <<workflowState, stored>> ]_vars

\* a request too short was typed into the box of generatePlan, and nothing
\* was ever stored
C2_Witness ==
  /\ last = Event("generatePlan", "invalid")
  /\ workflowState = EmptyWorkflowState
  /\ stored = Absent

\* C3: submitClarification called in phase clarification with fewer (or
\* more) answers than questions leaves the workflow state and the stored
\* state as they were, phase clarification included, and starts no plan
\* generation: no call of the adapter is left in flight.
C3_PartialSubmitIsNoOp ==
  [][ ( /\ SubmitClarificationCall
        /\ workflowState.phase = "clarification"
        /\ Len(workflowState.clarificationAnswers)
             # Len(workflowState.clarificationQuestions) )
      => /\ UNCHANGED <<workflowState, stored, calls>>
         /\ workflowState'.phase = "clarification"
         /\ last' = Event("submitClarification", "incomplete") ]_vars

\* submitClarification has just returned on one answer out of three
C3_Witness ==
  /\ last = Event("submitClarification", "incomplete")
  /\ workflowState.phase = "clarification"
  /\ Len(workflowState.clarificationQuestions) = 3
  /\ Len(workflowState.clarificationAnswers) = 1

(***************************************************************************)
(* Properties of the GeminiService (SpecGen)                               *)
(***************************************************************************)
GenDone(op) == gen.stage = "done" /\ gen.op = op

\* the bucket each request of GenRequests belongs to, read off its words
AuthQuestions == <<AuthQ1, AuthQ2, AuthQ3>>
ExpectedQuestions(r) ==
  CASE r \in {ReqAuth0, ReqUpper, ReqAuthApi, ReqShort} -> AuthQuestions
    [] r \in {ReqApi, trim(ReqPadded)} -> <<ApiQ1, ApiQ2, ApiQ3>>
    [] r = ReqDatabase -> <<DbQ1, DbQ2, DbQ3>>
    [] OTHER -> <<GenericQ1, GenericQ2, GenericQ3>>

ExpectedPlan(r) ==
  IF r \in {ReqAuth0, ReqUpper, ReqAuthApi, ReqShort}
  THEN AuthFallbackPlan ELSE GenericFallbackPlan

\* C4: with the backend not initialized, generateClarificationQuestions
\* returns exactly the three fixed questions of the bucket the request
\* matches; every request containing "auth" gets the three authentication
\* questions, whatever other keyword it contains.
C4_FallbackQuestionsByBucket ==
  (GenDone("questions") /\ ~gen.initialized)
    => /\ gen.questions = ExpectedQuestions(gen.userRequest)
       /\ includes(gen.userRequest, KwAuth) => gen.questions = AuthQuestions

\* the fallback answered a request holding both "auth" and "api"
C4_Witness ==
  /\ GenDone("questions") /\ ~gen.initialized
  /\ gen.userRequest = ReqAuthApi
  /\ gen.questions = AuthQuestions

\* C5: whatever the request and whatever the backend does (not initialized,
\* throws, returns any text), generateClarificationQuestions returns one to
\* three strings and each of them contains a question mark.
C5_OneToThreeQuestions ==
  GenDone("questions")
    => /\ Len(gen.questions) \in 1..3
       /\ \A i \in 1..Len(gen.questions) : \E k \in 1..Len(gen.questions[i]) :
            gen.questions[i][k] = "?"

\* the backend sent four lines with a question mark, three came back
C5_Witness ==
  /\ GenDone("questions") /\ gen.initialized /\ ~gen.throws
  /\ Len(SelectSeq(gen.text, LAMBDA c : c = "\n")) = 3
  /\ \A line \in {<<"q">>, <<" ">>, <<>>} : gen.text # joinLines(<<line, line, line, line>>)
  /\ Len(SelectSeq(gen.text, LAMBDA c : c = "?")) = 4
  /\ Len(gen.questions) = 3
  /\ gen.questions # ExpectedQuestions(gen.userRequest)

\* C6 (as claimed): every item of a plan returned by generatePlan has an
\* action among new, modify, remove, a non-empty file and a non-empty
\* description.
C6_PlanItemsWellFormed ==
  GenDone("plan")
    => \A i \in 1..Len(gen.plan) :
         /\ gen.plan[i].action \in {"new", "modify", "remove"}
         /\ gen.plan[i].file # <<>>
         /\ gen.plan[i].description # <<>>

\* where the claim says the operations must fall back: the backend is not
\* initialized, the call raises, the text has no question mark at all, the
\* response has no "[" or no "]", prose stands between a "[" and a later
\* "]", the text from the first "[" to the last "]" is not JSON, or no JSON
\* value in the response is an object with string file and description and
\* one of the three actions
ValidElement(v) ==
  /\ v.t = "object"
  /\ v.file.ty = "string" /\ v.description.ty = "string"
  /\ v.action.ty = "string" /\ v.action.s \in {"new", "modify", "remove"}

MustFallBack ==
  \/ ~gen.initialized
  \/ gen.throws
  \/ gen.op = "questions" /\ \A k \in 1..Len(gen.text) : gen.text[k] # "?"
  \/ /\ gen.op = "plan"
     /\ \/ \A k \in 1..Len(gen.response) : gen.response[k] # LBracket
        \/ \A k \in 1..Len(gen.response) : gen.response[k] # RBracket
        \/ \E i, k, j \in 1..Len(gen.response) :
             /\ i < k /\ k < j
             /\ gen.response[i] = LBracket /\ gen.response[k] = Prose
             /\ gen.response[j] = RBracket
        \/ LET match == jsonMatch(stripCodeFences(gen.response))
           IN  match # NoMatch /\ ~JSONparse(match).ok
        \/ \A k \in 1..Len(gen.response) :
             gen.response[k].k = "literal" => ~ValidElement(gen.response[k].v)

\* C7: neither operation rejects, neither returns an empty sequence, and
\* in each of the cases above the result is the fallback of the request.
C7_NeverThrowsNeverEmpty ==
  (gen.stage = "done")
    => /\ ~gen.threw
       /\ gen.op = "questions" => gen.questions # <<>>
       /\ gen.op = "plan" => gen.plan # <<>>
       /\ (MustFallBack /\ gen.op = "questions")
            => gen.questions = ExpectedQuestions(gen.userRequest)
       /\ (MustFallBack /\ gen.op = "plan") => gen.plan = ExpectedPlan(gen.userRequest)

\* the backend sent a well-formed array none of whose elements is valid
C7_Witness ==
  /\ GenDone("plan") /\ gen.initialized /\ ~gen.throws
  /\ gen.response = <<LBracket, Literal(ItemBadAction), Comma, Literal(NullValue), RBracket>>
  /\ gen.plan = GenericFallbackPlan

C9_ReloadRoundTrip ==
  (last = Event("PlannerProvider", "constructed") /\ stored # Absent)
    => /\ workflowState.phase = stored.phase
       /\ workflowState.userRequest = stored.userRequest
       /\ workflowState.clarificationQuestions = stored.clarificationQuestions
       /\ workflowState.clarificationAnswers = stored.clarificationAnswers
       /\ workflowState.plan = stored.plan

\* a session began on a stored state in phase ready with its plan
C9_Witness ==
  /\ last = Event("PlannerProvider", "constructed")
  /\ stored # Absent
  /\ workflowState.phase = "ready"
  /\ workflowState.plan # <<>>
  /\ workflowState.clarificationAnswers # <<>>

(***************************************************************************)
(* The end-to-end scenario, calls serialized (SpecSeq)                     *)
(***************************************************************************)
CountActions(plan, actions) == Len(SelectSeq(plan, LAMBDA item : item.action \in actions))

\* C10: with the backend unavailable and the request "Add user
\* authentication with Auth0": generatePlan stores the three fixed
\* authentication questions in phase clarification; submitClarification,
\* which runs only on three answers, stores a six-item plan (five new or
\* modify, one remove) in phase ready; and an execute of a six-item plan
\* whose every applyPlanItem succeeds reports 6/6 and leaves the empty
\* state in phase idle, in memory and in storage.
C10_Auth0EndToEnd ==
  /\ []( ( /\ last = Event("generatePlan", "questions")
           /\ ~isInitialized
           /\ workflowState.userRequest = ReqAuth0 )
         => /\ workflowState.phase = "clarification"
            /\ workflowState.clarificationQuestions = AuthQuestions
            /\ stored = workflowState )
  /\ []( ( /\ last = Event("submitClarification", "plan")
           /\ ~isInitialized
           /\ workflowState.userRequest = ReqAuth0
           /\ workflowState.clarificationQuestions = AuthQuestions )
         => /\ workflowState.phase = "ready"
            /\ Len(workflowState.clarificationAnswers) = 3
            /\ Len(workflowState.plan) = 6
            /\ CountActions(workflowState.plan, {"new", "modify"}) = 5
            /\ CountActions(workflowState.plan, {"remove"}) = 1
            /\ stored = workflowState )
  /\ [][ \A a \in BagToSet(calls) :
           ( /\ ExecuteToIDEApplied(a, TRUE)
             /\ Len(a.plan) = 6 /\ a.index = 6 /\ a.successCount = 5 )
           => /\ last' = Executed(6, 6)
              /\ workflowState' = EmptyWorkflowState
              /\ stored' = EmptyWorkflowState ]_vars

\* the six items of the authentication plan were applied and reported
C10_Witness ==
  /\ last = Executed(6, 6)
  /\ ~isInitialized
  /\ workflowState = EmptyWorkflowState
  /\ stored = EmptyWorkflowState

(***************************************************************************)
(* executeToIDE                                                            *)
(***************************************************************************)
Executing(a) == a.op = "executeToIDE" /\ a.pc = "apply"

Failures(log) == Len(SelectSeq(log, LAMBDA r : ~r.ok))

C12_ExecuteAlwaysResets ==
  (last.op = "executeToIDE" /\ last.step = "completed")
    => /\ workflowState = EmptyWorkflowState
       /\ stored = EmptyWorkflowState

\* an execute in which every entry was rejected has finished
C12_Witness ==
  /\ last = Executed(0, 3)
  /\ workflowState.phase = "idle" /\ workflowState.plan = <<>>
  /\ stored.userRequest = <<>>

\* C13: during one confirmed execute applyPlanItem is called once for each
\* entry of the plan in plan order, one call at a time: the loop starts at
\* the first entry of the plan as it is at the confirmation; while it
\* awaits the call for entry i, the calls made before are those for the
\* entries 1 .. i-1 in this order, all settled; and it ends on the
\* settling of the call for the last entry.
C13_OncePerEntryInOrder ==
  /\ [](\A a \in BagToSet(calls) :
          Executing(a)
            => /\ a.index \in 1..Len(a.plan)
               /\ Len(a.log) = a.index - 1
               /\ \A i \in 1..Len(a.log) : a.log[i].item = a.plan[i])
  /\ [][ \A a \in BagToSet(calls) :
          /\ (ExecuteToIDEConfirm(a) /\ workflowState.plan # <<>>)
               => \E b \in BagToSet(calls') :
                    /\ Executing(b) /\ b.plan = workflowState.plan
                    /\ b.index = 1 /\ b.log = <<>>
          /\ \A ok \in BOOLEAN :
               (ExecuteToIDEApplied(a, ok) /\ last'.step = "completed")
                 => a.index = Len(a.plan) ]_vars

\* the third call awaits, two were made before it, one of them rejected
C13_Witness ==
  \E a \in BagToSet(calls) :
    /\ Executing(a) /\ Len(a.plan) = 3 /\ a.index = 3
    /\ Len(a.log) = 2 /\ Failures(a.log) = 1

\* C14: execute applies nothing and changes nothing unless the phase is
\* ready, the plan is non-empty and the user confirms. Called in another
\* phase or with an empty plan it returns at once: no field, nothing
\* stored and no pending call changes. With the confirmation declined it
\* returns with the workflow state and the stored state as they were. And
\* a loop of applyPlanItem calls begins only in a step that confirms.
C14_ExecuteNeedsReadyPlanAndConfirmation ==
  [][ /\ ( /\ ExecuteToIDECall
           /\ ~(workflowState.phase = "ready" /\ workflowState.plan # <<>>) )
         => UNCHANGED <<workflowState, stored, calls>>
      /\ \A a \in BagToSet(calls) :
           ExecuteToIDEDecline(a)
             => /\ UNCHANGED <<workflowState, stored>>
                /\ \A b \in BagToSet(calls') : Executing(b) => b \in BagToSet(calls)
      /\ ( \E b \in BagToSet(calls') :
             Executing(b) /\ b.log = <<>> /\ CopiesIn(b, calls') > CopiesIn(b, calls) )
         => \E a \in BagToSet(calls) :
              /\ a.op = "executeToIDE" /\ a.pc = "confirm"
              /\ ExecuteToIDEConfirm(a) ]_vars

\* the user declined to execute a plan that is ready
C14_Witness ==
  /\ last = Event("executeToIDE", Cancelled)
  /\ workflowState.phase = "ready"
  /\ workflowState.plan # <<>>
  /\ stored = workflowState

(***************************************************************************)
(* restartWorkflow                                                         *)
(***************************************************************************)
\* C15: a restart the user confirms, in whatever phase, leaves the empty
\* default (phase idle, no request, questions, answers or plan) in memory
\* and in storage; a restart the user declines leaves the workflow state
\* and the stored state as they were.
C15_RestartClearsOnlyWhenConfirmed ==
  [][ \A a \in BagToSet(calls) :
        /\ RestartWorkflowConfirm(a)
             => /\ workflowState' = EmptyWorkflowState
                /\ stored' = EmptyWorkflowState
        /\ RestartWorkflowDecline(a) => UNCHANGED <<workflowState, stored>> ]_vars

\* a restart was confirmed while submitClarification awaited its plan, that
\* is in phase planning
C15_Witness ==
  /\ last = Event("restartWorkflow", "restarted")
  /\ \E a \in BagToSet(calls) : a.op = "submitClarification" /\ a.pc = "backend"
  /\ workflowState = EmptyWorkflowState
  /\ stored = EmptyWorkflowState

(***************************************************************************)
(* Persistence and responses that arrive late                              *)
(***************************************************************************)
AwaitsBackend(a) == a.pc = "backend"

\* C16: every mutation of the workflow state is persisted at once. At
\* every await of an operation and after every return the stored state
\* equals the state in memory, field by field; as long as nothing was
\* stored the state in memory is the default one.
C16_StoredEqualsMemory ==
  /\ stored # Absent
       => /\ stored.phase = workflowState.phase
          /\ stored.userRequest = workflowState.userRequest
          /\ stored.clarificationQuestions = workflowState.clarificationQuestions
          /\ stored.clarificationAnswers = workflowState.clarificationAnswers
          /\ stored.plan = workflowState.plan
  /\ stored = Absent => workflowState = EmptyWorkflowState

\* an answer was pushed and stored while another call awaits the backend
C16_Witness ==
  /\ last = Event("answerNextQuestion", "recorded")
  /\ \E a \in BagToSet(calls) : AwaitsBackend(a)
  /\ stored.clarificationAnswers # <<>>
  /\ stored = workflowState

\* C17 (as claimed): the stored state changes only on a successful
\* transition. While generatePlan awaits its questions the stored state is
\* the one from before the call, in phase idle with no request; while
\* submitClarification awaits its plan the stored state is still in phase
\* clarification; phase planning is never stored.
C17_StoredOnlyOnSuccess ==
  /\ stored.phase # "planning"
  /\ \A a \in BagToSet(calls) :
       AwaitsBackend(a)
         => IF a.op = "generatePlan"
            THEN stored.phase \in {"absent", "idle"} /\ stored.userRequest = <<>>
            ELSE stored.phase = "clarification"

\* C18 (as claimed): a response that arrives late is ignored. When the
\* questions arrive and the phase is no longer clarification, or the plan
\* arrives and the phase is no longer planning, the step leaves phase,
\* clarificationQuestions and plan as they are.
C18_StaleResponseIgnored ==
  [][ \A a \in BagToSet(calls) :
        ( /\ AwaitsBackend(a)
          /\ calls' = Finish(a) /\ last'.op = a.op
          /\ \/ a.op = "generatePlan" /\ workflowState.phase # "clarification"
             \/ a.op = "submitClarification" /\ workflowState.phase # "planning" )
        => /\ workflowState'.phase = workflowState.phase
           /\ workflowState'.clarificationQuestions = workflowState.clarificationQuestions
           /\ workflowState'.plan = workflowState.plan ]_vars

(***************************************************************************)
(* The phases                                                              *)
(***************************************************************************)
\* the transitions the state machine is said to have, by operation
PhaseTransitions ==
  {<<"generatePlan", "idle", "clarification">>,
   <<"generatePlan", "clarification", "idle">>,
   <<"submitClarification", "clarification", "planning">>,
   <<"submitClarification", "planning", "ready">>,
   <<"submitClarification", "planning", "clarification">>,
   <<"executeToIDE", "ready", "idle">>}
    \cup {<<"restartWorkflow", p, "idle">> : p \in Phases}

C20_RequestEmptyOnlyInIdle ==
  workflowState.phase \in {"clarification", "planning", "ready"}
    => workflowState.userRequest # <<>>

\* a request typed with blanks around it was stored trimmed, and its plan
\* is ready
C20_Witness ==
  /\ workflowState.phase = "ready"
  /\ workflowState.userRequest = trim(ReqUpper)
  /\ workflowState.userRequest # ReqUpper

(***************************************************************************)
(* answerNextQuestion                                                      *)
(***************************************************************************)
\* C21: an answer that is accepted appends one element, the trimmed text,
\* at the end of clarificationAnswers: the earlier answers keep their
\* places, and phase, userRequest, clarificationQuestions and plan are as
\* before, the phase also when the answers are now as many as the
\* questions.
C21_AnswerAppendsOnly ==
  [][ \A a \in BagToSet(calls), value \in AnswerInputs :
        ( /\ AnswerNextQuestionInput(a, value)
          /\ last' = Event("answerNextQuestion", "recorded") )
        => /\ workflowState'.clarificationAnswers
                = workflowState.clarificationAnswers \o <<trim(value)>>
           /\ workflowState'.phase = workflowState.phase
           /\ workflowState'.userRequest = workflowState.userRequest
           /\ workflowState'.clarificationQuestions = workflowState.clarificationQuestions
           /\ workflowState'.plan = workflowState.plan ]_vars

\* the third of three answers was typed with blanks around it and stored
\* trimmed after two others; the phase is still clarification
C21_Witness ==
  /\ last = Event("answerNextQuestion", "recorded")
  /\ workflowState.phase = "clarification"
  /\ Len(workflowState.clarificationQuestions) = 3
  /\ Len(workflowState.clarificationAnswers) = 3
  /\ workflowState.clarificationAnswers[1] = AnsOk
  /\ workflowState.clarificationAnswers[3] = trim(AnsPadded)

(***************************************************************************)
(* The GeminiService: requests to the backend                              *)
(***************************************************************************)
Requests(effects) == Len(SelectSeq(effects, LAMBDA e : e = GenerateContent))

\* C22: no retry. A call of generateClarificationQuestions or of
\* generatePlan sends at most one request to the backend, and none when
\* the service is not initialized; when the request fails or its response
\* is unusable and the fallback is returned, still one request was sent.
C22_AtMostOneRequest ==
  (gen.stage = "done" /\ gen.op \in {"questions", "plan"})
    => /\ Requests(gen.effects) <= 1
       /\ ~gen.initialized => Requests(gen.effects) = 0
       /\ (gen.initialized /\ MustFallBack) => Requests(gen.effects) = 1

\* the request was rejected and the fallback returned after one request
C22_Witness ==
  /\ GenDone("questions") /\ gen.initialized /\ gen.throws
  /\ gen.questions = ExpectedQuestions(gen.userRequest)
  /\ Requests(gen.effects) = 1

\* C23: a service that is not initialized (no key found, or the client
\* could not be built) answers every call of both operations with the
\* fallback and sends no request, whatever happens to the key in the
\* settings, and only refreshApiKey with a key in the settings makes it
\* initialized; a refresh that finds a key and builds the client makes it
\* initialized, and calls on an initialized service send a request.
C23_FallbackUntilRefresh ==
  [][ /\ (gen' # gen /\ gen'.op = "questions" /\ ~isInitialized)
           => /\ gen'.questions = ExpectedQuestions(gen'.userRequest)
              /\ Requests(gen'.effects) = 0
      /\ (gen' # gen /\ gen'.op = "plan" /\ ~isInitialized)
           => /\ gen'.plan = ExpectedPlan(gen'.userRequest)
              /\ Requests(gen'.effects) = 0
      /\ (gen' # gen /\ gen'.op \in {"questions", "plan"} /\ isInitialized)
           => Requests(gen'.effects) = 1
      /\ (~isInitialized /\ isInitialized') => (gen'.op = "refreshApiKey" /\ apiKey)
      /\ (RefreshApiKey(TRUE) /\ apiKey) => isInitialized' ]_vars

\* a service that had found no key was refreshed and is initialized
C23_Witness ==
  /\ gen.op = "refreshApiKey" /\ ~gen.initialized
  /\ isInitialized /\ model /\ apiKey

(***************************************************************************)
(* The CodebaseContext of the session                                      *)
(***************************************************************************)
\* C24: in one session analyzeWorkspace is started at most once, and a
\* codebaseContext once stored is not replaced, whatever views are
\* resolved and whatever messages the web view sends.
C24_ContextBuiltOnce ==
  [][ /\ sidebar'.analyses <= 1
      /\ sidebar.codebaseContext # NoContext
           => sidebar'.codebaseContext = sidebar.codebaseContext ]_vars

\* C25: with a workspace folder open, every call of the GeminiService
\* that a handler is awaiting was given a CodebaseContext.
C25_CallsCarryContext ==
  sidebar.workspaceFolders
    => \A p \in BagToSet(sidebar.pending) : p.context # NoContext

(***************************************************************************)
(* The key files of the CodebaseAnalyzer                                   *)
(***************************************************************************)
AnalysisDone == analysis.stage = "done" /\ ~analysis.threw
Oversized(file) == file.size > maxFileSize
Kept(file) == \E i \in 1..Len(analysis.keyFiles) : analysis.keyFiles[i].path = file.path

\* C26: the keyFiles that analyzeWorkspace returns are at most
\* maxTotalFiles; each has a size of at most maxFileSize and is a file of
\* the workspace with its whole content; no file larger than maxFileSize
\* is among them.
C26_KeyFilesWithinCaps ==
  AnalysisDone
    => /\ Len(analysis.keyFiles) <= maxTotalFiles
       /\ \A i \in 1..Len(analysis.keyFiles) :
            /\ analysis.keyFiles[i].size <= maxFileSize
            /\ \E j \in 1..Len(analysis.workspace) :
                 analysis.keyFiles[i] = FileInfo(analysis.workspace[j])
       /\ \A j \in 1..Len(analysis.workspace) :
            Oversized(analysis.workspace[j]) => ~Kept(analysis.workspace[j])

\* twenty key files out of more, with a file of 50001 bytes in the workspace
C26_Witness ==
  /\ AnalysisDone
  /\ Len(analysis.keyFiles) = maxTotalFiles
  /\ Len(analysis.workspace) > maxTotalFiles + 1
  /\ \E j \in 1..Len(analysis.workspace) : analysis.workspace[j].size = maxFileSize + 1

\* C27: when findFiles never rejects and a readable file of at most
\* maxFileSize bytes matching pattern i is not among the keyFiles, no key
\* file has an earliest matching pattern after i.
C27_EarlierPatternsFirst ==
  (AnalysisDone /\ analysis.rejected = {})
    => \A j \in 1..Len(analysis.workspace) :
         LET file == analysis.workspace[j]
         IN  (file.readable /\ ~Oversized(file) /\ ~Kept(file))
               => \A i \in file.patterns, k \in 1..Len(analysis.workspace) :
                    Kept(analysis.workspace[k])
                      => earliest(analysis.workspace[k].patterns) <= i

\* C28: analyzeWorkspace rejects exactly when there is no workspace
\* folder, whatever files and directories cannot be read and whatever the
\* package.json holds; when no package.json among the key files parses,
\* the dependencies are empty.
C28_FailsOnlyWithoutFolder ==
  analysis.stage = "done"
    => /\ analysis.threw <=> ~analysis.workspaceFolders
       /\ ( /\ ~analysis.threw
            /\ \A i \in 1..Len(analysis.keyFiles) :
                 analysis.keyFiles[i].path[1] = 1 => ~analysis.keyFiles[i].content.json.parses )
            => analysis.dependencies = <<>>

\* a context returned from a workspace with an unreadable file, an
\* unreadable directory and a package.json that does not parse
C28_Witness ==
  /\ AnalysisDone
  /\ \E j \in 1..Len(analysis.workspace) : ~analysis.workspace[j].readable
  /\ ~analysis.root.entries[3].readable
  /\ \E i \in 1..Len(analysis.keyFiles) :
       analysis.keyFiles[i].path[1] = 1 /\ analysis.keyFiles[i].content.json = Unparsable
  /\ analysis.dependencies = <<>>
  /\ analysis.structure # <<>>

(***************************************************************************)
(* The fallbacks, called with answers, contexts and histories that differ  *)
(***************************************************************************)
\* the schema of a plan item: one of the three actions, a file and a
\* description that are not empty
WellFormedPlan(plan) ==
  /\ plan # <<>>
  /\ \A i \in 1..Len(plan) :
       /\ plan[i].action \in ActionTypes
       /\ plan[i].file # <<>>
       /\ plan[i].description # <<>>

\* C29: when a call of the sidebar falls back (service not initialized,
\* request rejected, response without an array), the questions and the
\* plan it receives are those of the request's keyword bucket, whatever
\* answers and context were passed and whatever happened before; the
\* questions are three non-empty strings and the plan is a non-empty list
\* of well-formed items.
C29_FallbackByRequestAlone ==
  [][ \A p \in BagToSet(sidebar.pending) :
        /\ ( \E backend \in OverlapQuestionBackends :
               /\ HandleGeneratePlanResume(p, backend)
               /\ (~ensureInitialized \/ backend.throws) )
             => /\ sidebar'.clarificationQuestions = ExpectedQuestions(p.userRequest)
                /\ Len(sidebar'.clarificationQuestions) = 3
                /\ \A i \in 1..3 : sidebar'.clarificationQuestions[i] # <<>>
        /\ ( \E backend \in OverlapPlanBackends :
               /\ HandleSubmitAnswerResume(p, backend)
               /\ (~ensureInitialized \/ backend.throws \/ backend.text = <<Prose>>) )
             => /\ sidebar'.currentPlan = ExpectedPlan(p.userRequest)
                /\ WellFormedPlan(sidebar'.currentPlan) ]_vars

\* the fallback plan of the request, received by a call that passed two
\* answers (one of them naming Auth0) and a context
C29_Witness ==
  /\ ~ensureInitialized
  /\ sidebar.currentRequest = ReqGeneric
  /\ sidebar.clarificationQuestions = ExpectedQuestions(ReqGeneric)
  /\ Len(sidebar.clarificationAnswers) = 2
  /\ sidebar.codebaseContext # NoContext
  /\ BagToSet(sidebar.pending) = {}
  /\ sidebar.currentPlan = GenericFallbackPlan

\* C30: generateClarificationQuestions returns two or three questions,
\* whatever the backend responds.
C30_TwoOrThreeQuestions ==
  GenDone("questions") => Len(gen.questions) \in {2, 3}

(***************************************************************************)
(* The questions taken from a response                                     *)
(***************************************************************************)
\* the lines of the response that hold a question mark, by position
QuestionLines(text) ==
  {i \in 1..Len(splitLines(text)) : \E k \in 1..Len(splitLines(text)[i]) : splitLines(text)[i][k] = "?"}

\* C31: when the backend answered and at least one line of its text holds
\* a question mark, the k-th question returned is the k-th such line,
\* trimmed, for k up to three; the result holds min(3, number of such
\* lines) questions, so no other line appears in it.
C31_FirstThreeQuestionLines ==
  ( /\ GenDone("questions") /\ gen.initialized /\ ~gen.throws
    /\ QuestionLines(gen.text) # {} )
    => LET lines == splitLines(gen.text)
           at == QuestionLines(gen.text)
           n == Cardinality(at)
       IN  /\ Len(gen.questions) = IF n < 3 THEN n ELSE 3
           /\ \A k \in 1..Len(gen.questions) :
                \E i \in at :
                  /\ Cardinality({j \in at : j < i}) = k - 1
                  /\ gen.questions[k] = trim(lines[i])
                  /\ gen.questions[k] # <<>>

\* four lines, the second without a question mark, the third padded
C31_Witness ==
  /\ GenDone("questions") /\ gen.initialized /\ ~gen.throws
  /\ gen.text = joinLines(<< <<"q", "?">>, <<"q">>, <<" ", "?", " ">>, <<"?", " ", "q">> >>)
  /\ gen.questions = << <<"q", "?">>, <<"?">>, <<"?", " ", "q">> >>

(***************************************************************************)
(* The array taken from a plan response                                    *)
(***************************************************************************)
\* the first bracketed array of a response: from its first "[" to the
\* first "]" after it
FirstArray(text) ==
  LET opens == {i \in 1..Len(text) : text[i] = LBracket}
  IN  IF opens = {} THEN <<>>
      ELSE LET from == CHOOSE i \in opens : \A j \in opens : i <= j
               closes == {i \in from..Len(text) : text[i] = RBracket}
           IN  IF closes = {} THEN <<>>
               ELSE SubSeq(text, from, CHOOSE i \in closes : \A j \in closes : i <= j)

\* C32: when the response, its code fences stripped, holds a well-formed
\* array with at least one valid item and a closing bracket somewhere
\* after that array, generatePlan returns the validated items of the array.
C32_FirstArrayIsParsed ==
  ( /\ GenDone("plan") /\ gen.initialized /\ ~gen.throws
    /\ LET text == stripCodeFences(gen.response)
           first == FirstArray(text)
       IN  /\ first # <<>>
           /\ JSONparse(first).ok
           /\ validatePlan(JSONparse(first).elems) # <<>>
           /\ \E i, k \in 1..Len(text) :
                /\ text[i] = LBracket /\ \A j \in 1..(i - 1) : text[j] # LBracket
                /\ k >= i + Len(first) /\ text[k] = RBracket )
    => gen.plan = validatePlan(JSONparse(FirstArray(stripCodeFences(gen.response))).elems)

(***************************************************************************)
(* Operations of the PlannerProvider that overlap (Spec)                   *)
(***************************************************************************)
\* C33: also with calls of answerNextQuestion overlapping, there are never
\* more answers than questions: when a call records its answer after
\* another answer was recorded since it read the index of its question
\* (line 656), in a state with no more answers than questions, the state
\* it leaves has no more answers than questions.
C33_OverlappingAnswersWithinQuestions ==
  [][ \A a \in BagToSet(calls) :
        ( /\ last' = Event("answerNextQuestion", "recorded")
          /\ \E value \in OverlapAnswers : AnswerNextQuestionInput(a, value)
          /\ a.index < Len(workflowState.clarificationAnswers)
          /\ AnswersWithinQuestions )
        => Len(workflowState'.clarificationAnswers)
             <= Len(workflowState'.clarificationQuestions) ]_vars

\* C34: submitClarification starts the generation of a plan (it moves to
\* phase planning and calls the GeminiService) only in a state that has at
\* least one clarification question.
C34_NoPlanningWithoutQuestions ==
  [][ ( /\ SubmitClarificationCall
        /\ last'.step \in {"pending", "plan", "failed"} )
      => Len(workflowState.clarificationQuestions) > 0 ]_vars

(***************************************************************************)
(* Stored states and the engine that resumes from them (SpecSeqFair)       *)
(***************************************************************************)
\* C35: provided every backend call that was issued returns or fails and
\* the engine is not constructed anew for ever, phase planning is always
\* left again, also in an engine that loaded the state from storage.
C35_PlanningIsLeft ==
  ([]<><<Activate>>_vars)
    \/ ((workflowState.phase = "planning") ~> (workflowState.phase # "planning"))

(***************************************************************************)
(* executeToIDE invoked again, restarted, overlapped (Spec)                *)
(***************************************************************************)
\* the calls of executeToIDE that have invoked applyPlanItem for entries
\* of the plan (those up to index)
Applying == {a \in BagToSet(calls) : a.op = "executeToIDE" /\ a.pc = "apply"}

\* C36: no entry of a plan has applyPlanItem invoked for it by two calls of
\* executeToIDE: among the calls in flight no two are applying the entries
\* of the same plan.
C36_ItemsAppliedOnce ==
  \A a, b \in Applying :
    /\ CopiesIn(a, calls) = 1
    /\ a # b => a.plan # b.plan

\* C37: when the loop of a confirmed executeToIDE ends, the total it reports
\* is the number of entries it attempted, and a workflow begun meanwhile
\* (restart confirmed, a new request accepted) keeps its userRequest, its
\* questions and its answers.
C37_CompletionClearsOnlyExecuted ==
  [][ \A a \in Applying :
        ( /\ \E ok \in BOOLEAN : ExecuteToIDEApplied(a, ok)
          /\ last'.step = "completed" )
        => /\ last'.total = Len(a.plan)
           /\ workflowState.phase \in {"clarification", "planning"}
                => /\ workflowState'.userRequest = workflowState.userRequest
                   /\ workflowState'.clarificationQuestions
                        = workflowState.clarificationQuestions
                   /\ workflowState'.clarificationAnswers
                        = workflowState.clarificationAnswers ]_vars

(***************************************************************************)
(* A file that several patterns find (SpecAnalyzer)                        *)
(***************************************************************************)
\* C38: the keyFiles that analyzeWorkspace returns hold no path twice.
C38_KeyFilesDistinct ==
  AnalysisDone
    => \A i, j \in 1..Len(analysis.keyFiles) :
         analysis.keyFiles[i].path = analysis.keyFiles[j].path => i = j

(***************************************************************************)
(* The fields of the sidebar and the request they belong to (SpecSidebar)  *)
(***************************************************************************)
\* C39: the answers that handleSubmitAnswer passes to generatePlan are
\* exactly the answers submitted since currentRequest was last assigned.
C39_AnswersOfCurrentRequest ==
  [][ (\E text \in TypedAnswers : HandleSubmitAnswer(text))
        => \A p \in BagToSet(sidebar'.pending (-) sidebar.pending) :
             p.clarificationAnswers = sidebar'.sinceRequest ]_vars

\* C40: the response to a call made for a request other than currentRequest
\* never overwrites clarificationQuestions or currentPlan; after a restart
\* the questions and the plan of the earlier request do not come back.
C40_StaleResponsesDropped ==
  [][ \A p \in BagToSet(sidebar.pending) :
        ( /\ sidebar'.pending = sidebar.pending (-) SetToBag({p})
          /\ p.userRequest # sidebar.currentRequest )
        => /\ sidebar'.clarificationQuestions = sidebar.clarificationQuestions
           /\ sidebar'.currentPlan = sidebar.currentPlan ]_vars

=============================================================================
